---- MODULE Spec2Model ----
(***************************************************************************)
(* Model of the photo metadata pipeline of Worksite_Appendix_Creator       *)
(* (src/photo_processor.py): the adapters, the caption / GPS / heading     *)
(* resolvers, the per-photo record builder, the batch loop and the         *)
(* temp-file cleanup.                                                      *)
(*                                                                         *)
(* Text is a sequence of one-character strings.  Numbers that Python keeps *)
(* as floats (degrees) are integers in units of 1/Unit degree, so that     *)
(* deg + min/60 + sec/3600 is exact.  A Python value is a tagged record    *)
(* [k |-> kind, v |-> payload].                                            *)
(***************************************************************************)
EXTENDS Integers, Sequences, FiniteSets, TLC

VARIABLES
    pc,               \* position of the run
    world,            \* what the file system and the external tools hold for the photo(s)
    result,           \* what the last call returned; for cleanup_temp_files, what it found
    HEIC_SUPPORT,     \* module flag: pillow_heif could be imported
    EXIFTOOL_PATH,    \* module global: path of the CLI tool, or None
    photo_data_list,  \* records returned by extract_metadata_from_photos
    disk,             \* temp files that exist on disk
    next_tmp,         \* names mkstemp has handed out so far
    unlinked,         \* temp file -> number of successful os.unlink calls
    cleanup_calls,    \* number of cleanup_temp_files calls made
    cleanup_raised    \* the last cleanup_temp_files call raised to its caller

vars == <<pc, world, result, HEIC_SUPPORT, EXIFTOOL_PATH, photo_data_list,
          disk, next_tmp, unlinked, cleanup_calls, cleanup_raised>>

----------------------------------------------------------------------------
(* Bounds of the model *)

MaxFields == 2
MaxGpsSources == 2
MaxHeadingFields == 2
MaxTrailingNul == 2
MaxPhotos == 2
MaxCleanupCalls == 2

(* Units per degree: minutes / 60.0 and seconds / 3600.0 are then exact *)
Unit == 3600

----------------------------------------------------------------------------
(* Python values *)

None == [k |-> "none"]
Str(s) == [k |-> "str", v |-> s]
Num(n) == [k |-> "num", v |-> n]
List(l) == [k |-> "list", v |-> l]
Raise(e) == [k |-> "raise", v |-> e]

IsNone(x) == x.k = "none"
IsStr(x) == x.k = "str"

(* dict: a sequence of entries in insertion order, keys distinct *)
Entry(key, val) == [key |-> key, val |-> val]
Keys(d) == {d[i].key : i \in 1..Len(d)}
HasKey(d, key) == key \in Keys(d)
Get(d, key) ==
    IF HasKey(d, key)
    THEN d[CHOOSE i \in 1..Len(d) : d[i].key = key].val
    ELSE None

Min(S) == CHOOSE x \in S : \A y \in S : x <= y
Abs(n) == IF n < 0 THEN -n ELSE n

----------------------------------------------------------------------------
(* Text *)

NUL == "NUL"
Whitespace == {" ", "\t", "\n", "\r"}
Digits == {"0", "1", "2", "3", "4", "5", "6", "7", "8", "9"}
IsSpace(c) == c \in Whitespace
IsDigit(c) == c \in Digits

UpperLetters == <<"A","B","C","D","E","F","G","H","I","J","K","L","M",
                  "N","O","P","Q","R","S","T","U","V","W","X","Y","Z">>
LowerLetters == <<"a","b","c","d","e","f","g","h","i","j","k","l","m",
                  "n","o","p","q","r","s","t","u","v","w","x","y","z">>

LowerChar(c) ==
    IF \E i \in 1..26 : UpperLetters[i] = c
    THEN LowerLetters[CHOOSE i \in 1..26 : UpperLetters[i] = c]
    ELSE c
UpperChar(c) ==
    IF \E i \in 1..26 : LowerLetters[i] = c
    THEN UpperLetters[CHOOSE i \in 1..26 : LowerLetters[i] = c]
    ELSE c

Lower(s) == [i \in 1..Len(s) |-> LowerChar(s[i])]
Upper(s) == [i \in 1..Len(s) |-> UpperChar(s[i])]

RECURSIVE LStrip(_)
LStrip(s) == IF Len(s) > 0 /\ IsSpace(s[1]) THEN LStrip(Tail(s)) ELSE s

RECURSIVE RStrip(_)
RStrip(s) ==
    IF Len(s) > 0 /\ IsSpace(s[Len(s)]) THEN RStrip(SubSeq(s, 1, Len(s) - 1)) ELSE s

Strip(s) == RStrip(LStrip(s))

(* str.split(sep) for a one-character separator *)
RECURSIVE Split(_, _)
Split(s, c) ==
    LET idx == {i \in 1..Len(s) : s[i] = c}
    IN  IF idx = {} THEN <<s>>
        ELSE <<SubSeq(s, 1, Min(idx) - 1)>> \o Split(SubSeq(s, Min(idx) + 1, Len(s)), c)

(* str.split(): pieces between runs of whitespace, empty pieces dropped *)
RECURSIVE SplitWs(_)
SplitWs(s) ==
    LET t == LStrip(s)
        ws == {i \in 1..Len(t) : IsSpace(t[i])}
    IN  IF Len(t) = 0 THEN << >>
        ELSE IF ws = {} THEN <<t>>
        ELSE <<SubSeq(t, 1, Min(ws) - 1)>> \o SplitWs(SubSeq(t, Min(ws), Len(t)))

Contains(s, c) == \E i \in 1..Len(s) : s[i] = c
StartsWith(s, p) == Len(s) >= Len(p) /\ SubSeq(s, 1, Len(p)) = p
EndsWith(s, p) == Len(s) >= Len(p) /\ SubSeq(s, Len(s) - Len(p) + 1, Len(s)) = p
Filter(s, keep) == SelectSeq(s, LAMBDA c : c \in keep)

----------------------------------------------------------------------------
(* Numbers *)

DigitSeq == <<"0", "1", "2", "3", "4", "5", "6", "7", "8", "9">>
DigitVal(c) == CHOOSE n \in 0..9 : DigitSeq[n + 1] = c

RECURSIVE DigitsVal(_)
DigitsVal(s) ==
    IF Len(s) = 0 THEN 0
    ELSE 10 * DigitsVal(SubSeq(s, 1, Len(s) - 1)) + DigitVal(s[Len(s)])

RECURSIVE Pow10(_)
Pow10(n) == IF n = 0 THEN 1 ELSE 10 * Pow10(n - 1)

(* float(text) for text made of a sign, digits and dots: the value in units,
   or a ValueError.  Exact for up to two fractional digits. *)
ParseFloat(s) ==
    LET signed == Len(s) > 0 /\ s[1] \in {"+", "-"}
        body == IF signed THEN Tail(s) ELSE s
        dots == {i \in 1..Len(body) : body[i] = "."}
        wellFormed == /\ \A i \in 1..Len(body) : IsDigit(body[i]) \/ body[i] = "."
                      /\ Cardinality(dots) <= 1
                      /\ \E i \in 1..Len(body) : IsDigit(body[i])
        intPart == IF dots = {} THEN body ELSE SubSeq(body, 1, Min(dots) - 1)
        fracPart == IF dots = {} THEN << >> ELSE SubSeq(body, Min(dots) + 1, Len(body))
        mag == DigitsVal(intPart) * Unit
               + (DigitsVal(fracPart) * Unit) \div Pow10(Len(fracPart))
    IN  IF ~wellFormed THEN Raise("ValueError")
        ELSE Num(IF signed /\ s[1] = "-" THEN -mag ELSE mag)

(* str(n) of a natural number *)
RECURSIVE NatText(_)
NatText(n) ==
    IF n < 10 THEN <<DigitSeq[n + 1]>> ELSE NatText(n \div 10) \o <<DigitSeq[(n % 10) + 1]>>

(* str(x) of a float held in units, with at most two fractional digits *)
FloatText(n) ==
    LET mag == Abs(n)
        hundredths == ((mag % Unit) * 100) \div Unit
        frac == IF hundredths % 10 = 0 THEN NatText(hundredths \div 10)
                ELSE <<DigitSeq[(hundredths \div 10) + 1], DigitSeq[(hundredths % 10) + 1]>>
    IN  (IF n < 0 THEN <<"-">> ELSE << >>) \o NatText(mag \div Unit) \o <<".">> \o frac

----------------------------------------------------------------------------
(* Extractor adapters *)

Dict(d) == [k |-> "dict", v |-> d]
Truthy(x) ==
    CASE x.k = "none" -> FALSE
      [] x.k = "dict" -> Len(x.v) > 0
      [] x.k = "str" -> Len(x.v) > 0
      [] x.k = "num" -> x.v # 0
      [] x.k = "list" -> Len(x.v) > 0
      [] OTHER -> TRUE

T_null == <<"n", "u", "l", "l">>
T_none == <<"n", "o", "n", "e">>
T_paren_null == <<"(", "n", "u", "l", "l", ")">>

(* line 66: the entries of metadata_list[0] that are not a string equal,
   up to letter case, to 'null', '' or 'none' *)
cleaned_metadata(d) ==
    SelectSeq(d, LAMBDA e : ~(IsStr(e.val) /\ Lower(e.val.v) \in {T_null, << >>, T_none}))

(* the except clauses of lines 75, 347 and 355 changed to catch nothing *)
except_nothing(r, fallback) == r

(* "except Exception" of lines 75, 347 and 355: r is what the try block gave,
   a value or an exception; fallback is what the handler returns *)
except_Exception(r, fallback) == IF r.k = "raise" THEN fallback ELSE r

(* lines 55-72, the try block of get_metadata_with_exiftool: tool is what
   running the CLI tool on the photo does.  The executable may be gone
   ("notfound") or not startable ("oserror"); it may exit non-zero without
   output ("error") or print nothing ("nostdout"); its output may not be JSON
   ("badjson", caught at line 69), not a non-empty list ("notlist", line 68) or
   a list of something else than mappings ("notdict", .items() fails). *)
exiftool_try(tool) ==
    CASE tool.k = "notfound" -> Raise("FileNotFoundError")
      [] tool.k = "oserror" -> Raise("OSError")
      [] tool.k = "notdict" -> Raise("AttributeError")
      [] tool.k = "json" -> Dict(cleaned_metadata(tool.v))
      [] OTHER -> Dict(<< >>)

(* what get_metadata_with_exiftool hands back: the mapping, the value
   EXIFTOOL_PATH has afterwards, and whether an exception left the function *)
exiftool_returned(path, r) ==
    [md |-> IF r.k = "raise" THEN << >> ELSE r.v, path |-> path, raised |-> r.k = "raise"]

(* get_metadata_with_exiftool with the test of line 53 left out *)
get_metadata_with_exiftool_always_runs(path, tool) ==
    IF exiftool_try(tool).k = "raise" /\ exiftool_try(tool).v = "FileNotFoundError"
    THEN exiftool_returned(None, Dict(<< >>))
    ELSE exiftool_returned(path, except_Exception(exiftool_try(tool), Dict(<< >>)))

(* get_metadata_with_exiftool: line 53, then the try block with the handlers
   of lines 73-74 (FileNotFoundError) and 75 (Exception) *)
get_metadata_with_exiftool(path, tool) ==
    IF IsNone(path) THEN exiftool_returned(path, Dict(<< >>))
    ELSE IF exiftool_try(tool).k = "raise" /\ exiftool_try(tool).v = "FileNotFoundError"
         THEN exiftool_returned(None, Dict(<< >>))
         ELSE exiftool_returned(path, except_Exception(exiftool_try(tool), Dict(<< >>)))

mdls_keywords == {"kMDItemDescription", "kMDItemTitle", "kMDItemHeadline", "kMDItemSubject",
                  "kMDItemComment", "kMDItemLatitude", "kMDItemLongitude"}

RECURSIVE LStripChar(_, _)
LStripChar(s, c) == IF Len(s) > 0 /\ s[1] = c THEN LStripChar(Tail(s), c) ELSE s
RECURSIVE RStripChar(_, _)
RStripChar(s, c) ==
    IF Len(s) > 0 /\ s[Len(s)] = c THEN RStripChar(SubSeq(s, 1, Len(s) - 1), c) ELSE s
StripChar(s, c) == RStripChar(LStripChar(s, c), c)

(* lines 338-344: the lines "key = value" of the tool's output, in order *)
RECURSIVE mdls_data(_)
mdls_data(lines) ==
    IF Len(lines) = 0 THEN << >>
    ELSE LET key == Head(lines).key
             value == StripChar(Strip(Head(lines).val), "\"")
             rest == mdls_data(Tail(lines))
         IN  IF key \in mdls_keywords /\ value # T_paren_null
             THEN <<Entry(key, Str(value))>> \o rest
             ELSE rest

(* lines 332-346, the try block of get_macos_metadata: tool is what running
   mdls on the photo does.  It may not be startable ("oserror"), print bytes
   that are not UTF-8 ("undecodable"), exit non-zero ("error") or print its
   lines ("out"). *)
mdls_try(tool) ==
    CASE tool.k = "oserror" -> Raise("OSError")
      [] tool.k = "undecodable" -> Raise("UnicodeDecodeError")
      [] tool.k = "out" /\ Len(tool.v) > 0 /\ Len(mdls_data(tool.v)) > 0 -> Dict(mdls_data(tool.v))
      [] OTHER -> None

(* get_macos_metadata: None without mdls on the system (line 330), else the
   try block with the handler of line 347 *)
get_macos_metadata(tool) ==
    IF tool.k = "absent" THEN None ELSE except_Exception(mdls_try(tool), None)

(* lines 353-354, the try block of get_aae_data: the sidecar's text, held as
   what the two patterns of extract_caption capture in it; reading it may fail
   ("unreadable") *)
aae_try(sidecar) == IF sidecar.k = "unreadable" THEN Raise("OSError") ELSE sidecar

(* get_aae_data: None without a sidecar file (line 352), else the try block
   with the handler of line 355 and the return of line 356 *)
get_aae_data(sidecar) ==
    IF IsNone(sidecar) THEN None ELSE except_Exception(aae_try(sidecar), None)

----------------------------------------------------------------------------
(* Caption resolution *)

KeyLowerTable ==
    ("IFD0:ImageDescription" :> "ifd0:imagedescription") @@
    ("EXIF:ImageDescription" :> "exif:imagedescription") @@
    ("XMP:Description" :> "xmp:description") @@
    ("IPTC:Caption-Abstract" :> "iptc:caption-abstract") @@
    ("Apple:Description" :> "apple:description") @@
    ("QuickTime:Description" :> "quicktime:description") @@
    ("QuickTime:Title" :> "quicktime:title") @@
    ("XMP:Title" :> "xmp:title") @@
    ("IPTC:ObjectName" :> "iptc:objectname") @@
    ("XMP:Headline" :> "xmp:headline") @@
    ("EXIF:UserComment" :> "exif:usercomment") @@
    ("EXIF:XPTitle" :> "exif:xptitle") @@
    ("EXIF:XPComment" :> "exif:xpcomment") @@
    ("EXIF:XPSubject" :> "exif:xpsubject") @@
    ("RIFF:UserComment" :> "riff:usercomment") @@
    ("Comment" :> "comment") @@
    ("EXIF:GPSLatitude" :> "exif:gpslatitude") @@
    ("EXIF:GPSLongitude" :> "exif:gpslongitude") @@
    ("EXIF:GPSLatitudeRef" :> "exif:gpslatituderef") @@
    ("EXIF:GPSLongitudeRef" :> "exif:gpslongituderef") @@
    ("Composite:GPSLatitude" :> "composite:gpslatitude") @@
    ("Composite:GPSLongitude" :> "composite:gpslongitude") @@
    ("XMP:GPSLatitude" :> "xmp:gpslatitude") @@
    ("XMP:GPSLongitude" :> "xmp:gpslongitude") @@
    ("GPS:Latitude" :> "gps:latitude") @@
    ("GPS:Longitude" :> "gps:longitude") @@
    ("GPS:LatitudeRef" :> "gps:latituderef") @@
    ("GPS:LongitudeRef" :> "gps:longituderef") @@
    ("Composite:GPSPosition" :> "composite:gpsposition") @@
    ("Composite:GPSImgDirection" :> "composite:gpsimgdirection") @@
    ("EXIF:GPSImgDirection" :> "exif:gpsimgdirection") @@
    ("XMP:GPSImgDirection" :> "xmp:gpsimgdirection") @@
    ("GPS:ImgDirection" :> "gps:imgdirection") @@
    ("Composite:GPSDestBearing" :> "composite:gpsdestbearing") @@
    ("EXIF:GPSDestBearing" :> "exif:gpsdestbearing") @@
    ("XMP:GPSDestBearing" :> "xmp:gpsdestbearing") @@
    ("GPS:GPSDestBearing" :> "gps:gpsdestbearing") @@
    ("QuickTime:CameraAngle" :> "quicktime:cameraangle") @@
    ("Track1:CameraAngle" :> "track1:cameraangle") @@
    ("Track2:CameraAngle" :> "track2:cameraangle")

(* str.lower of a key: the table holds every key with an upper-case letter
   that the model uses; any other key is already in lower case *)
KeyLower(key) == IF key \in DOMAIN KeyLowerTable THEN KeyLowerTable[key] ELSE key

primary_description_fields ==
    <<"IFD0:ImageDescription", "EXIF:ImageDescription", "XMP:Description",
      "IPTC:Caption-Abstract", "Apple:Description", "QuickTime:Description",
      "QuickTime:Title">>

secondary_related_fields ==
    <<"XMP:Title", "IPTC:ObjectName", "XMP:Headline", "EXIF:UserComment", "EXIF:XPTitle",
      "EXIF:XPComment", "EXIF:XPSubject", "RIFF:UserComment", "Comment">>

mdls_fields_priority ==
    <<"kMDItemDescription", "kMDItemTitle", "kMDItemHeadline", "kMDItemSubject",
      "kMDItemComment">>

(* lines 102-110, from field i on: the caption returned, None when the loop
   ends without one, or the KeyError of exiftool_metadata[field] *)
RECURSIVE PrimaryLoop(_, _)
PrimaryLoop(md, i) ==
    IF i > Len(primary_description_fields) THEN None
    ELSE LET field == primary_description_fields[i]
         IN  IF KeyLower(field) \in {KeyLower(key) : key \in Keys(md)}
             THEN IF ~HasKey(md, field) THEN Raise("KeyError")
                  ELSE IF IsStr(Get(md, field)) /\ Len(Strip(Get(md, field).v)) > 0
                       THEN Str(Strip(Get(md, field).v))
                       ELSE PrimaryLoop(md, i + 1)
             ELSE PrimaryLoop(md, i + 1)

(* line 131: the first key of the mapping equal to the field up to letter case *)
found_key(md, field) ==
    LET hits == {j \in 1..Len(md) : KeyLower(md[j].key) = KeyLower(field)}
    IN  IF hits = {} THEN None ELSE Str(md[Min(hits)].key)

(* lines 137-140: the EXIF:UserComment value with its encoding prefix removed *)
UserCommentValue(value) ==
    LET parts == Split(value, NUL)
        potential_caption == Strip(parts[Len(parts)])
    IN  IF Len(potential_caption) > 0 THEN potential_caption
        ELSE IF Len(parts) > 1 THEN Strip(parts[Len(parts) - 1]) ELSE << >>

(* lines 128-146, from field i on *)
RECURSIVE SecondaryLoop(_, _)
SecondaryLoop(md, i) ==
    IF i > Len(secondary_related_fields) THEN None
    ELSE LET fk == found_key(md, secondary_related_fields[i])
         IN  IF ~IsNone(fk) /\ IsStr(Get(md, fk.v))
             THEN LET stripped == Strip(Get(md, fk.v).v)
                      value == IF KeyLower(fk.v) = "exif:usercomment" /\ Contains(stripped, NUL)
                               THEN UserCommentValue(stripped)
                               ELSE stripped
                  IN  IF Len(value) > 0 THEN Str(value) ELSE SecondaryLoop(md, i + 1)
             ELSE SecondaryLoop(md, i + 1)

(* lines 153-160, from field i on *)
RECURSIVE MdlsLoop(_, _)
MdlsLoop(md, i) ==
    IF i > Len(mdls_fields_priority) THEN None
    ELSE LET field == mdls_fields_priority[i]
         IN  IF /\ HasKey(md, field)
                /\ Truthy(Get(md, field))
                /\ Get(md, field).v # T_paren_null
                /\ Len(Strip(Get(md, field).v)) > 0
             THEN Str(Strip(Get(md, field).v))
             ELSE MdlsLoop(md, i + 1)

(* lines 166-176: the embedded-tag reader's 'Image ImageDescription' *)
TagsCaption(tags) ==
    IF HasKey(tags, "Image ImageDescription")
    THEN LET text == Strip(Get(tags, "Image ImageDescription").v)
             parts == Split(text, NUL)
             value == IF Contains(text, NUL) THEN Strip(parts[Len(parts)]) ELSE text
         IN  IF Len(value) > 0 THEN Str(value) ELSE None
    ELSE None

(* lines 184-199: the two patterns searched in the sidecar text; adj and desc
   are what group 1 of each pattern captures, None when it does not match *)
AaeCaption(aae) ==
    IF ~IsNone(aae.adj) /\ Len(Strip(aae.adj.v)) > 0 THEN Str(Strip(aae.adj.v))
    ELSE IF ~IsNone(aae.desc) /\ Len(Strip(aae.desc.v)) > 0 THEN Str(Strip(aae.desc.v))
    ELSE None

(* extract_caption(filename, tags, exiftool_metadata, mdls_metadata, aae_data) *)
extract_caption(filename, tags, exiftool_metadata, mdls_metadata, aae_data) ==
    LET t1 == IF Len(exiftool_metadata) > 0 THEN PrimaryLoop(exiftool_metadata, 1) ELSE None
        t2 == IF Len(exiftool_metadata) > 0 THEN SecondaryLoop(exiftool_metadata, 1) ELSE None
        t3 == IF Truthy(mdls_metadata) THEN MdlsLoop(mdls_metadata.v, 1) ELSE None
        t4 == IF Truthy(tags) THEN TagsCaption(tags.v) ELSE None
        t5 == IF Truthy(aae_data) THEN AaeCaption(aae_data) ELSE None
    IN  IF ~IsNone(t1) THEN t1
        ELSE IF ~IsNone(t2) THEN t2
        ELSE IF ~IsNone(t3) THEN t3
        ELSE IF ~IsNone(t4) THEN t4
        ELSE t5

----------------------------------------------------------------------------
(* GPS resolution *)

GpsTextChars == Digits \cup Whitespace \cup {".", "-"}

(* lines 214-240: the unsigned-as-written decimal, None where the code
   returns None, or the exception float() raises *)
PartsDecimal(f) ==
    IF Len(f) \notin {1, 2, 3} THEN None
    ELSE IF \E i \in 1..Len(f) : f[i].k = "raise" THEN Raise("ValueError")
    ELSE IF Len(f) = 3 THEN Num(f[1].v + f[2].v \div 60 + f[3].v \div 3600)
    ELSE IF Len(f) = 2 THEN Num(f[1].v + f[2].v \div 60)
    ELSE f[1]

FloatEach(parts) == [i \in 1..Len(parts) |-> ParseFloat(parts[i])]

GpsDecimal(gps_coords) ==
    CASE gps_coords.k = "list" /\ Len(gps_coords.v) = 3 ->
            Num(gps_coords.v[1] + gps_coords.v[2] \div 60 + gps_coords.v[3] \div 3600)
      [] gps_coords.k = "num" -> gps_coords
      [] gps_coords.k = "str" ->
            PartsDecimal(FloatEach(SplitWs(Strip(Filter(gps_coords.v, GpsTextChars)))))
      [] OTHER -> None

T_N == <<"N">>
T_S == <<"S">>
T_E == <<"E">>
T_W == <<"W">>

(* lines 246-249: the range test applied to the signed decimal *)
RangeAccepts(decimal, gps_ref) ==
    LET refIs(set) == Truthy(gps_ref) /\ IsStr(gps_ref) /\ gps_ref.v \in set
        is_latitude == refIs({T_N, T_S}) \/ Abs(decimal) <= 90 * Unit
        is_longitude == refIs({T_E, T_W}) \/ Abs(decimal) <= 180 * Unit
    IN  /\ ~(is_latitude /\ ~(-90 * Unit <= decimal /\ decimal <= 90 * Unit))
        /\ ~(is_longitude /\ ~(-180 * Unit <= decimal /\ decimal <= 180 * Unit))

(* lines 242-244 without .upper(): only the capital letters S and W negate *)
RefSigned_exact_case(decimal, gps_ref) ==
    IF /\ Truthy(gps_ref) /\ IsStr(gps_ref) /\ decimal >= 0
       /\ Strip(gps_ref.v) \in {T_S, T_W}
    THEN -decimal ELSE decimal

(* lines 242-244: a south or west reference makes a positive decimal negative *)
RefSigned(decimal, gps_ref) ==
    IF /\ Truthy(gps_ref) /\ IsStr(gps_ref) /\ decimal >= 0
       /\ Strip(Upper(gps_ref.v)) \in {T_S, T_W}
    THEN -decimal ELSE decimal

(* lines 246-251: the decimal when the range test accepts it *)
RangeChecked(decimal, gps_ref) ==
    IF RangeAccepts(decimal, gps_ref) THEN Num(decimal) ELSE None

(* lines 241-251 and the except clause, on the outcome d0 of lines 214-240 *)
SignedDecimal(d0, gps_ref) ==
    IF d0.k # "num" THEN None ELSE RangeChecked(RefSigned(d0.v, gps_ref), gps_ref)

(* convert_gps_to_decimal(gps_coords, gps_ref): Num(decimal) or None *)
convert_gps_to_decimal(gps_coords, gps_ref) == SignedDecimal(GpsDecimal(gps_coords), gps_ref)

NoKey == ""
gps_keys_sets ==
    <<[lat |-> "EXIF:GPSLatitude", lon |-> "EXIF:GPSLongitude",
       lat_ref |-> "EXIF:GPSLatitudeRef", lon_ref |-> "EXIF:GPSLongitudeRef"],
      [lat |-> "Composite:GPSLatitude", lon |-> "Composite:GPSLongitude",
       lat_ref |-> NoKey, lon_ref |-> NoKey],
      [lat |-> "XMP:GPSLatitude", lon |-> "XMP:GPSLongitude",
       lat_ref |-> NoKey, lon_ref |-> NoKey],
      [lat |-> "GPS:Latitude", lon |-> "GPS:Longitude",
       lat_ref |-> "GPS:LatitudeRef", lon_ref |-> "GPS:LongitudeRef"]>>

NoPair == <<None, None>>

(* lines 267, 275, 293 changed to "latitude is not None or longitude is not None" *)
IsPair_either(p) == ~IsNone(p[1]) \/ ~IsNone(p[2])

(* lines 267, 275, 293: "latitude is not None and longitude is not None" *)
IsPair(p) == ~IsNone(p[1]) /\ ~IsNone(p[2])

(* lines 263-266 for one key set: the two converted components *)
KeySetPair(md, keys) ==
    LET lat_val == Get(md, keys.lat)
        lon_val == Get(md, keys.lon)
        latitude == convert_gps_to_decimal(lat_val, Get(md, keys.lat_ref))
        longitude == convert_gps_to_decimal(lon_val, Get(md, keys.lon_ref))
    IN  IF ~IsNone(lat_val) /\ ~IsNone(lon_val) THEN <<latitude, longitude>> ELSE NoPair

(* the first complete pair of a sequence of pairs, in order *)
FirstPair(pairs) ==
    IF \E i \in 1..Len(pairs) : IsPair(pairs[i])
    THEN pairs[Min({i \in 1..Len(pairs) : IsPair(pairs[i])})]
    ELSE NoPair

(* lines 262-268: the key sets in order, returning at the first complete pair *)
KeySetsLoop(md) == FirstPair([i \in 1..Len(gps_keys_sets) |-> KeySetPair(md, gps_keys_sets[i])])

(* lines 269-276: the composite "lat,lon" position string *)
PositionPair(md) ==
    LET pos_str == Get(md, "Composite:GPSPosition")
        parts == Split(pos_str.v, ",")
        lat_cand == convert_gps_to_decimal(Str(Strip(parts[1])), None)
        lon_cand == convert_gps_to_decimal(Str(Strip(parts[2])), None)
    IN  IF IsStr(pos_str) /\ Contains(pos_str.v, ",") /\ Len(parts) = 2
        THEN <<lat_cand, lon_cand>>
        ELSE NoPair

(* lines 278-284: the OS-native query's latitude and longitude *)
MdlsRanged(latitude, longitude) ==
    IF /\ latitude.k = "num" /\ longitude.k = "num"
       /\ -90 * Unit <= latitude.v /\ latitude.v <= 90 * Unit
       /\ -180 * Unit <= longitude.v /\ longitude.v <= 180 * Unit
    THEN <<latitude, longitude>>
    ELSE NoPair

MdlsPair(md) ==
    LET lat_val == Get(md, "kMDItemLatitude")
        lon_val == Get(md, "kMDItemLongitude")
    IN  IF /\ ~IsNone(lat_val) /\ ~IsNone(lon_val)
           /\ lat_val.v # T_paren_null /\ lon_val.v # T_paren_null
        THEN MdlsRanged(ParseFloat(Strip(lat_val.v)), ParseFloat(Strip(lon_val.v)))
        ELSE NoPair

(* lines 287-294: the embedded-tag reader's GPS group *)
TagsPair(tags) ==
    LET lat_ref == IF HasKey(tags, "GPS GPSLatitudeRef")
                   THEN Str(Strip(Get(tags, "GPS GPSLatitudeRef").v)) ELSE Str(T_N)
        lon_ref == IF HasKey(tags, "GPS GPSLongitudeRef")
                   THEN Str(Strip(Get(tags, "GPS GPSLongitudeRef").v)) ELSE Str(T_E)
        latitude == convert_gps_to_decimal(Get(tags, "GPS GPSLatitude"), lat_ref)
        longitude == convert_gps_to_decimal(Get(tags, "GPS GPSLongitude"), lon_ref)
    IN  IF HasKey(tags, "GPS GPSLatitude") /\ HasKey(tags, "GPS GPSLongitude")
        THEN <<latitude, longitude>>
        ELSE NoPair

(* extract_gps_data(tags, exiftool_metadata, mdls_metadata): <<latitude, longitude>> *)
extract_gps_data(tags, exiftool_metadata, mdls_metadata) ==
    FirstPair(<<IF Len(exiftool_metadata) > 0 THEN KeySetsLoop(exiftool_metadata) ELSE NoPair,
                IF Len(exiftool_metadata) > 0 /\ HasKey(exiftool_metadata, "Composite:GPSPosition")
                THEN PositionPair(exiftool_metadata) ELSE NoPair,
                IF Truthy(mdls_metadata) THEN MdlsPair(mdls_metadata.v) ELSE NoPair,
                IF Truthy(tags) THEN TagsPair(tags.v) ELSE NoPair>>)

----------------------------------------------------------------------------
(* Heading resolution *)

orientation_fields ==
    <<"Composite:GPSImgDirection", "EXIF:GPSImgDirection", "XMP:GPSImgDirection",
      "GPS:ImgDirection", "Composite:GPSDestBearing", "EXIF:GPSDestBearing",
      "XMP:GPSDestBearing", "GPS:GPSDestBearing", "QuickTime:CameraAngle",
      "Track1:CameraAngle", "Track2:CameraAngle">>

orientation_tags == <<"GPS GPSImgDirection", "GPS GPSDestBearing">>

(* str(value) of a mapping value *)
ValueText(x) ==
    CASE x.k = "str" -> x.v
      [] x.k = "num" -> FloatText(x.v)
      [] OTHER -> <<"?">>

RECURSIVE DigitRun(_)
DigitRun(s) == IF Len(s) > 0 /\ IsDigit(s[1]) THEN 1 + DigitRun(Tail(s)) ELSE 0

(* line 309: re.match of the leading number pattern: an optional sign, then
   digits with an optional dot and more digits, or a dot and digits.  The
   matched text, or None. *)
numeric_part(text) ==
    LET sign == IF Len(text) > 0 /\ text[1] \in {"+", "-"} THEN 1 ELSE 0
        body == SubSeq(text, sign + 1, Len(text))
        n == DigitRun(body)
        afterInt == SubSeq(body, n + 1, Len(body))
        m == IF Len(afterInt) > 0 /\ afterInt[1] = "." THEN 1 + DigitRun(Tail(afterInt)) ELSE 0
    IN  IF n > 0 THEN Str(SubSeq(text, 1, sign + n + m))
        ELSE IF m > 1 THEN Str(SubSeq(text, 1, sign + m))
        ELSE None

(* lines 312, 323 changed to "0 <= orientation" *)
InHeadingRange_unbounded(orientation) == 0 <= orientation

(* lines 312, 323: "0 <= orientation <= 360" *)
InHeadingRange(orientation) == 0 <= orientation /\ orientation <= 360 * Unit

(* lines 305-314 changed to give up at the first field that holds a value: an
   out-of-range or unparsable value ends the search of the fields *)
OrientationFieldsLoop_stops(md, i) ==
    LET present == {j \in i..Len(orientation_fields) :
                        HasKey(md, orientation_fields[j]) /\ ~IsNone(Get(md, orientation_fields[j]))}
        match == numeric_part(ValueText(Get(md, orientation_fields[Min(present)])))
    IN  IF present = {} \/ IsNone(match) THEN None
        ELSE IF ParseFloat(match.v).k = "num" /\ 0 <= ParseFloat(match.v).v
                /\ ParseFloat(match.v).v <= 360 * Unit
             THEN ParseFloat(match.v)
             ELSE None

(* lines 305-314, from field i on *)
RECURSIVE OrientationFieldsLoop(_, _)
OrientationFieldsLoop(md, i) ==
    IF i > Len(orientation_fields) THEN None
    ELSE LET field == orientation_fields[i]
             match == numeric_part(ValueText(Get(md, field)))
             orientation == ParseFloat(match.v)
         IN  IF /\ HasKey(md, field) /\ ~IsNone(Get(md, field)) /\ ~IsNone(match)
                /\ orientation.k = "num" /\ InHeadingRange(orientation.v)
             THEN orientation
             ELSE OrientationFieldsLoop(md, i + 1)

(* lines 320-322: float(value), value[0] when tags[tag_name].values is a list,
   or the exception raised *)
TagNumber(value) ==
    CASE value.k = "list" ->
            IF Len(value.v) > 0 THEN Num(value.v[1]) ELSE Raise("IndexError")
      [] value.k = "num" -> value
      [] value.k = "str" -> ParseFloat(Strip(value.v))
      [] OTHER -> Raise("TypeError")

(* lines 317-325, from tag i on *)
RECURSIVE OrientationTagsLoop(_, _)
OrientationTagsLoop(tags, i) ==
    IF i > Len(orientation_tags) THEN None
    ELSE LET orientation == TagNumber(Get(tags, orientation_tags[i]))
         IN  IF /\ HasKey(tags, orientation_tags[i])
                /\ orientation.k = "num" /\ InHeadingRange(orientation.v)
             THEN orientation
             ELSE OrientationTagsLoop(tags, i + 1)

(* extract_orientation_data(tags, exiftool_metadata, mdls_metadata) *)
extract_orientation_data(tags, exiftool_metadata, mdls_metadata) ==
    LET a == IF Len(exiftool_metadata) > 0 THEN OrientationFieldsLoop(exiftool_metadata, 1)
             ELSE None
        b == IF Truthy(tags) THEN OrientationTagsLoop(tags.v, 1) ELSE None
    IN  IF ~IsNone(a) THEN a ELSE b

----------------------------------------------------------------------------
(* Fallback caption from the file name *)

Max(S) == CHOOSE x \in S : \A y \in S : x >= y

(* os.path.basename *)
basename(path) ==
    LET idx == {i \in 1..Len(path) : path[i] = "/"}
    IN  IF idx = {} THEN path ELSE SubSeq(path, Max(idx) + 1, Len(path))

(* os.path.splitext(name)[0]: leading dots do not start an extension *)
splitext_root(name) ==
    LET dots == {i \in 1..Len(name) : name[i] = "."}
    IN  IF dots = {} \/ (\A i \in 1..(Max(dots) - 1) : name[i] = ".") THEN name
        ELSE SubSeq(name, 1, Max(dots) - 1)

T_heic == <<".", "h", "e", "i", "c">>
is_heic(photo_path) == EndsWith(Lower(photo_path), T_heic)

camera_prefixes ==
    <<<<"I", "M", "G">>, <<"D", "S", "C">>, <<"V", "I", "D">>, <<"P", "X", "L">>,
      <<"S", "c", "r", "e", "e", "n", "s", "h", "o", "t">>,
      <<"S", "c", "r", "e", "e", "n", " ", "S", "h", "o", "t">>>>

Separators == Whitespace \cup {"_", "-"}
RunChars == {"_", " ", "-"}

RECURSIVE DropWhile(_, _)
DropWhile(s, set) == IF Len(s) > 0 /\ s[1] \in set THEN DropWhile(Tail(s), set) ELSE s

(* line 422: the first camera prefix the name starts with, in any letter
   case, and the separators after it, removed *)
StripCameraPrefix(name) ==
    LET hits == {i \in 1..Len(camera_prefixes) :
                    /\ Len(name) >= Len(camera_prefixes[i])
                    /\ Lower(SubSeq(name, 1, Len(camera_prefixes[i]))) = Lower(camera_prefixes[i])}
    IN  IF hits = {} THEN name
        ELSE DropWhile(SubSeq(name, Len(camera_prefixes[Min(hits)]) + 1, Len(name)), Separators)

(* line 423: each run of '_', ' ' and '-' replaced by one space *)
RECURSIVE CollapseRuns(_)
CollapseRuns(s) ==
    IF Len(s) = 0 THEN << >>
    ELSE IF s[1] \in RunChars THEN <<" ">> \o CollapseRuns(DropWhile(s, RunChars))
    ELSE <<s[1]>> \o CollapseRuns(Tail(s))

clean_name(filename_no_ext) == Strip(CollapseRuns(StripCameraPrefix(filename_no_ext)))

AllDigits(s, from, n) == from + n - 1 <= Len(s) /\ \A i \in from..(from + n - 1) : IsDigit(s[i])

(* where the time part starts for a date starting at i: after the separators *)
TimeStart(s, i) == Len(s) + 1 - Len(DropWhile(SubSeq(s, i + 8, Len(s)), Separators))

(* line 424: re.search of eight digits, separators, six digits: the six
   groups as numbers, None without a match *)
datetime_match(s) ==
    LET starts == {i \in 1..Len(s) : AllDigits(s, i, 8) /\ AllDigits(s, TimeStart(s, i), 6)}
        i == Min(starts)
        t == TimeStart(s, i)
    IN  IF starts = {} THEN None
        ELSE List(<<DigitsVal(SubSeq(s, i, i + 3)), DigitsVal(SubSeq(s, i + 4, i + 5)),
                    DigitsVal(SubSeq(s, i + 6, i + 7)), DigitsVal(SubSeq(s, t, t + 1)),
                    DigitsVal(SubSeq(s, t + 2, t + 3)), DigitsVal(SubSeq(s, t + 4, t + 5))>>)

DaysInMonth(year, month) ==
    IF month = 2
    THEN IF (year % 4 = 0 /\ year % 100 # 0) \/ year % 400 = 0 THEN 29 ELSE 28
    ELSE IF month \in {4, 6, 9, 11} THEN 30 ELSE 31

(* datetime(y, m, d, H, M, S) accepts the six numbers *)
ValidDateTime(g) ==
    /\ g[1] >= 1 /\ g[2] \in 1..12 /\ g[3] >= 1 /\ g[3] <= DaysInMonth(g[1], g[2])
    /\ g[4] <= 23 /\ g[5] <= 59 /\ g[6] <= 59

ZeroPad(n, width) ==
    LET t == NatText(n)
    IN  [i \in 1..(IF width > Len(t) THEN width - Len(t) ELSE 0) |-> "0"] \o t

T_photo_from == <<"P", "h", "o", "t", "o", " ", "f", "r", "o", "m", " ">>

(* line 429 changed to a format without zero padding of month, day and hour *)
strftime_unpadded(g) ==
    ZeroPad(g[1], 4) \o <<"-">> \o NatText(g[2]) \o <<"-">> \o NatText(g[3])
    \o <<" ">> \o NatText(g[4]) \o <<":">> \o ZeroPad(g[5], 2)

(* line 429: dt_obj.strftime('%Y-%m-%d %H:%M') *)
strftime(g) ==
    ZeroPad(g[1], 4) \o <<"-">> \o ZeroPad(g[2], 2) \o <<"-">> \o ZeroPad(g[3], 2)
    \o <<" ">> \o ZeroPad(g[4], 2) \o <<":">> \o ZeroPad(g[5], 2)

(* lines 421-431: the caption synthesized from the file name *)
fallback_caption(filename) ==
    LET filename_no_ext == splitext_root(filename)
        cn == clean_name(filename_no_ext)
        m == datetime_match(cn)
    IN  IF ~IsNone(m) /\ ValidDateTime(m.v) THEN Str(T_photo_from \o strftime(m.v))
        ELSE IF Len(cn) > 0 THEN Str(cn) ELSE Str(filename_no_ext)

----------------------------------------------------------------------------
(* Photo record builder *)

TempPath(n) == [k |-> "tmp", v |-> n]

(* apply_exif_orientation followed by .size: transposing swaps the sides *)
oriented_size(image) ==
    IF image.orientation \in {5, 6, 7, 8} THEN <<image.height, image.width>>
    ELSE <<image.width, image.height>>

(* lines 382-395: the HEIC conversion.  w.heic says how far it gets:
   "open_fail", "mkstemp_fail", "save_fail" or "ok".  temp is the name mkstemp
   hands out. *)
Err(msg) == [k |-> "err", v |-> msg]

heic_conversion(w, heic_support, temp) ==
    LET attempted == is_heic(w.path) /\ heic_support
        opened == attempted /\ w.heic # "open_fail"
        created == opened /\ w.heic # "mkstemp_fail"
        saved == created /\ w.heic # "save_fail"
    IN  [width |-> IF opened THEN Num(w.image.width) ELSE None,
         height |-> IF opened THEN Num(w.image.height) ELSE None,
         temp_file |-> IF saved THEN TempPath(temp) ELSE None,
         created |-> created,
         error |-> IF attempted /\ ~saved THEN Err("HEIC processing failed") ELSE None]

(* lines 396-404: the dimensions read from processing_path; w.image.openable
   says whether Image.open(processing_path) succeeds *)
read_dimensions(w, conv) ==
    IF IsNone(conv.width) /\ w.exists
    THEN IF w.image.openable
         THEN [width |-> Num(oriented_size(w.image)[1]),
               height |-> Num(oriented_size(w.image)[2]), error |-> conv.error]
         ELSE [width |-> None, height |-> None,
               error |-> IF Truthy(conv.error) THEN conv.error ELSE Err("Image open failed")]
    ELSE [width |-> conv.width, height |-> conv.height, error |-> conv.error]

(* lines 376-381 and 413-443: the record, from what the earlier stages left:
   conv the conversion's outcome, dims the dimensions, et the CLI tool's
   outcome, resolved, gps and orientation what the three resolvers returned.
   An exception out of a resolver leaves the fields after it unset and records
   the fatal error (lines 433-435). *)
photo_record(w, conv, dims, et, resolved, gps, orientation, fs, tmpn) ==
    LET raised == resolved.k = "raise"
    IN  [photo_data |->
            [path |-> w.path,
             filename |-> basename(w.path),
             caption |-> IF raised THEN None
                         ELSE IF IsNone(resolved) THEN fallback_caption(basename(w.path))
                         ELSE resolved,
             latitude |-> IF raised THEN None ELSE gps[1],
             longitude |-> IF raised THEN None ELSE gps[2],
             orientation |-> IF raised THEN None ELSE orientation,
             temp_file |-> conv.temp_file,
             width |-> dims.width,
             height |-> dims.height,
             error |-> IF raised THEN Err("Fatal processing error") ELSE dims.error],
         EXIFTOOL_PATH |-> et.path,
         disk |-> IF conv.created THEN fs \cup {tmpn + 1} ELSE fs,
         next_tmp |-> IF conv.created THEN tmpn + 1 ELSE tmpn]

(* lines 405-407: whether one of the adapters raised into the builder *)
adapter_raised(et, mdls_metadata, aae_data) ==
    et.raised \/ mdls_metadata.k = "raise" \/ aae_data.k = "raise"

(* lines 413-418: the three resolvers on what the adapters returned *)
resolve_metadata(w, conv, dims, et, mdls_metadata, aae_data, exifread_tags, fs, tmpn) ==
    photo_record(w, conv, dims, et,
                 IF adapter_raised(et, mdls_metadata, aae_data) THEN Raise("Exception")
                 ELSE extract_caption(basename(w.path), exifread_tags, et.md, mdls_metadata,
                                      aae_data),
                 extract_gps_data(exifread_tags, et.md, mdls_metadata),
                 extract_orientation_data(exifread_tags, et.md, mdls_metadata),
                 fs, tmpn)

(* lines 396-412: the dimensions, then the four adapters on processing_path *)
gather_metadata(w, conv, exiftool_path, fs, tmpn) ==
    resolve_metadata(w, conv, read_dimensions(w, conv),
                     get_metadata_with_exiftool(exiftool_path, w.exiftool),
                     get_macos_metadata(w.mdls),
                     get_aae_data(w.aae),
                     IF ~IsNone(conv.temp_file) \/ w.exists THEN w.tags ELSE None,
                     fs, tmpn)

(* extract_metadata_from_photo(photo_path): w is what the file system and the
   tools hold for the photo, fs the temp files on disk, tmpn the last name
   mkstemp handed out.  Returns the record and the state left behind. *)
extract_metadata_from_photo(w, heic_support, exiftool_path, fs, tmpn) ==
    gather_metadata(w, heic_conversion(w, heic_support, tmpn + 1), exiftool_path, fs, tmpn)

----------------------------------------------------------------------------
(* Batch pipeline *)

(* line 451 changed to drop the record of a photo whose processing failed *)
append_record_skips_failed(list, photo_data) ==
    IF IsNone(photo_data.error) THEN Append(list, photo_data) ELSE list

(* line 451: photo_data_list.append(photo_data) *)
append_record(list, photo_data) == Append(list, photo_data)

Collected(list, r) ==
    [photo_data_list |-> append_record(list, r.photo_data),
     EXIFTOOL_PATH |-> r.EXIFTOOL_PATH,
     disk |-> r.disk,
     next_tmp |-> r.next_tmp]

RECURSIVE ExtractFrom(_, _, _, _)
ExtractFrom(ws, i, heic_support, acc) ==
    IF i > Len(ws) THEN acc
    ELSE ExtractFrom(ws, i + 1, heic_support,
                     Collected(acc.photo_data_list,
                               extract_metadata_from_photo(ws[i], heic_support, acc.EXIFTOOL_PATH,
                                                           acc.disk, acc.next_tmp)))

(* extract_metadata_from_photos(photo_paths) *)
extract_metadata_from_photos(ws, heic_support, exiftool_path, fs, tmpn) ==
    ExtractFrom(ws, 1, heic_support,
                [photo_data_list |-> << >>, EXIFTOOL_PATH |-> exiftool_path,
                 disk |-> fs, next_tmp |-> tmpn])

(* lines 461-463 without the existence test and without the try: os.unlink of
   a missing file, or a failing os.unlink, raises out of the loop *)
cleanup_one_unguarded(photo_data, st, failing) ==
    IF Truthy(photo_data.temp_file)
    THEN IF photo_data.temp_file.v \in st.disk /\ photo_data.temp_file.v \notin failing
         THEN [st EXCEPT !.disk = @ \ {photo_data.temp_file.v},
                         !.unlinked[photo_data.temp_file.v] = @ + 1]
         ELSE [st EXCEPT !.raised = TRUE]
    ELSE st

(* lines 461-463 without the try: a failing os.unlink raises out of the loop *)
cleanup_one_no_try(photo_data, st, failing) ==
    IF Truthy(photo_data.temp_file) /\ photo_data.temp_file.v \in st.disk
    THEN IF photo_data.temp_file.v \in failing THEN [st EXCEPT !.raised = TRUE]
         ELSE [st EXCEPT !.disk = @ \ {photo_data.temp_file.v},
                         !.unlinked[photo_data.temp_file.v] = @ + 1]
    ELSE st

(* lines 460-463 for one record: st is the disk, the unlink counts and whether
   an exception is propagating; failing are the files os.unlink fails on *)
cleanup_one(photo_data, st, failing) ==
    LET temp_file_path == photo_data.temp_file
    IN  IF Truthy(temp_file_path) /\ temp_file_path.v \in st.disk
        THEN IF temp_file_path.v \in failing THEN st
             ELSE [st EXCEPT !.disk = @ \ {temp_file_path.v},
                             !.unlinked[temp_file_path.v] = @ + 1]
        ELSE st

(* lines 459-463, from record i on; an exception that propagates ends the loop *)
RECURSIVE CleanupFrom(_, _, _, _)
CleanupFrom(list, i, st, failing) ==
    IF i > Len(list) \/ st.raised THEN st
    ELSE CleanupFrom(list, i + 1, cleanup_one(list[i], st, failing), failing)

(* cleanup_temp_files(photo_data_list) *)
cleanup_temp_files(list, st, failing) ==
    IF Len(list) = 0 THEN st ELSE CleanupFrom(list, 1, st, failing)

----------------------------------------------------------------------------
(* The photos the model is run on.  A world is what one photo's file, its
   sidecar and the external tools hold; it is assembled from items: an item is
   the entries one field (or one GPS source) contributes, and a bundle takes
   at most a bounded number of items of different groups. *)

F_plain == <<"a", ".", "j", "p", "g">>
F_dated_heic == <<"I", "M", "G", "_", "2", "0", "2", "3", "0", "4", "0", "1", "_", "1", "4", "3", "0", "0", "0", ".", "h", "e", "i", "c">>
F_dated_jpg == <<"d", "/", "P", "X", "L", "_", "2", "0", "2", "3", "0", "4", "0", "1", "-", "1", "4", "3", "0", "0", "0", ".", "j", "p", "g">>
F_date_only == <<"2", "0", "2", "3", "0", "4", "0", "1", ".", "j", "p", "g">>
F_bad_month == <<"I", "M", "G", "_", "2", "0", "2", "3", "1", "3", "0", "1", "_", "1", "4", "3", "0", "0", "0", ".", "j", "p", "g">>
F_feb_30 == <<"D", "S", "C", "_", "2", "0", "2", "3", "0", "2", "3", "0", "_", "1", "0", "1", "1", "1", "2", ".", "j", "p", "g">>
F_leap_day == <<"V", "I", "D", " ", "2", "0", "2", "4", "0", "2", "2", "9", " ", "2", "3", "5", "9", "5", "9", ".", "j", "p", "g">>
F_words == <<"d", "/", "D", "S", "C", "-", "h", "o", "l", "_", "_", "t", "r", "i", "p", ".", "J", "P", "G">>
F_prefix_only == <<"I", "M", "G", "_", ".", "j", "p", "g">>
F_upper_heic == <<"b", "e", "a", "c", "h", ".", "H", "E", "I", "C">>
T_claimed_caption == <<"P", "h", "o", "t", "o", " ", "f", "r", "o", "m", " ", "A", "p", "r", "i", "l", " ", "0", "1", ",", " ", "2", "0", "2", "3", ",", " ", "1", "4", ":", "3", "0">>
T_code_caption == <<"P", "h", "o", "t", "o", " ", "f", "r", "o", "m", " ", "2", "0", "2", "3", "-", "0", "4", "-", "0", "1", " ", "1", "4", ":", "3", "0">>

Deg(n) == Num(n * Unit)
Absent == [k |-> "absent"]
E(src, key, val) == [src |-> src, key |-> key, val |-> val]
Item(group, entries) == [group |-> group, entries |-> entries]
Exif(key, val) == Item(key, {E("exif", key, val)})
Mdls(key, text) == Item(key, {E("mdls", key, text)})
Tag(key, val) == Item(key, {E("tags", key, val)})
Aae(key, val) == Item(key, {E("aae", key, val)})

(* the order of the keys in the tools' output *)
KeyOrder ==
    <<"xmp:description", "IFD0:ImageDescription", "XMP:Description", "QuickTime:Title",
      "XMP:Title", "EXIF:UserComment", "Comment",
      "EXIF:GPSLatitude", "EXIF:GPSLongitude", "EXIF:GPSLatitudeRef", "EXIF:GPSLongitudeRef",
      "Composite:GPSLatitude", "Composite:GPSLongitude", "XMP:GPSLatitude", "XMP:GPSLongitude",
      "GPS:Latitude", "GPS:Longitude", "GPS:LatitudeRef", "GPS:LongitudeRef",
      "Composite:GPSPosition",
      "Composite:GPSImgDirection", "EXIF:GPSDestBearing", "Track2:CameraAngle",
      "kMDItemDescription", "kMDItemTitle", "kMDItemLatitude", "kMDItemLongitude",
      "Image ImageDescription", "GPS GPSLatitude", "GPS GPSLongitude", "GPS GPSLatitudeRef",
      "GPS GPSLongitudeRef", "GPS GPSImgDirection", "GPS GPSDestBearing", "adj", "desc">>
KeyPos(key) == CHOOSE i \in 1..Len(KeyOrder) : KeyOrder[i] = key

RECURSIVE SortEntries(_)
SortEntries(S) ==
    IF S = {} THEN << >>
    ELSE LET first == CHOOSE e \in S : \A f \in S : KeyPos(e.key) <= KeyPos(f.key)
         IN  <<Entry(first.key, first.val)>> \o SortEntries(S \ {first})

RECURSIVE Bundles(_, _)
Bundles(items, n) ==
    IF n = 0 THEN {{}}
    ELSE LET prev == Bundles(items, n - 1)
             more(b) == {b \cup {it} : it \in {x \in items : \A y \in b : y.group # x.group}}
         IN  prev \cup UNION {more(b) : b \in prev}

EntriesOf(bundle) == UNION {it.entries : it \in bundle}

FineImage == [openable |-> TRUE, width |-> 4, height |-> 3, orientation |-> 1]

(* the world made of a path and the entries the sources hold *)
WorldOf(path, S) ==
    LET of(src) == SortEntries({e \in S : e.src = src})
        aae(key) == IF \E e \in S : e.src = "aae" /\ e.key = key
                    THEN (CHOOSE e \in S : e.src = "aae" /\ e.key = key).val ELSE None
    IN  [path |-> path,
         exists |-> TRUE,
         heic |-> "ok",
         image |-> FineImage,
         exiftool |-> [k |-> "json", v |-> of("exif")],
         mdls |-> IF of("mdls") = << >> THEN Absent ELSE [k |-> "out", v |-> of("mdls")],
         aae |-> IF of("aae") = << >> THEN None
                 ELSE [k |-> "aae", adj |-> aae("adj"), desc |-> aae("desc")],
         tags |-> Dict(of("tags"))]

NulTail(n) == [i \in 1..n |-> NUL]

CaptionItems ==
    {Exif("IFD0:ImageDescription", v) :
        v \in {Str(<<"a">>), Str(<<" ", "b", " ">>), Str(<<" ">>), Str(<<"N", "u", "l", "l">>),
               Str(<<" ", "n", "u", "l", "l", " ">>), Num(5)}}
    \cup {Exif("XMP:Description", v) : v \in {Str(<<"d">>), Str(<<" ">>), Num(5)}}
    \cup {Exif("xmp:description", v) : v \in {Str(<<"e">>), Num(5)}}
    \cup {Exif("QuickTime:Title", Str(<<"q">>))}
    \cup {Exif("XMP:Title", v) : v \in {Str(<<"t">>), Str(<<" ">>)}}
    \cup {Exif("EXIF:UserComment", Str(<<"u">>))}
    \cup {Exif("EXIF:UserComment", Str(<<"x", NUL, "c">> \o NulTail(n))) : n \in 0..MaxTrailingNul}
    \cup {Exif("Comment", Str(<<"k">>))}
    \cup {Mdls("kMDItemDescription", t) :
            t \in {<<"\"", "m", "\"">>, T_paren_null, <<"\"", " ", "\"">>,
                   <<"\"", " ", "(", "n", "u", "l", "l", ")", "\"">>}}
    \cup {Mdls("kMDItemTitle", <<"\"", "n", "\"">>)}
    \cup {Tag("Image ImageDescription", v) :
            v \in {Str(<<"g">>), Str(<<" ">>), Str(<<"x", NUL, "h">>)}}
    \cup {Aae("adj", v) : v \in {Str(<<"j">>), Str(<<" ">>)}}
    \cup {Aae("desc", Str(<<"i">>))}

CaptionWorlds == {WorldOf(F_plain, EntriesOf(b)) : b \in Bundles(CaptionItems, MaxFields)}

Dms(d, m, s) == List(<<d * Unit, m * Unit, s * Unit>>)
Reading(group, src, pairs) == Item(group, {E(src, p[1], p[2]) : p \in pairs})

(* the CLI tool's EXIF:GPS* key set: latitude, longitude and the two refs *)
ExifGps(lat, lon, lat_ref, lon_ref) ==
    Reading("exif-EXIF", "exif",
            {p \in {<<"EXIF:GPSLatitude", lat>>, <<"EXIF:GPSLongitude", lon>>,
                    <<"EXIF:GPSLatitudeRef", lat_ref>>, <<"EXIF:GPSLongitudeRef", lon_ref>>} :
                p[2] # Absent})
CompositeGps(lat, lon) ==
    Reading("exif-Composite", "exif",
            {<<"Composite:GPSLatitude", lat>>, <<"Composite:GPSLongitude", lon>>})
MdlsGps(lat, lon) ==
    Reading("mdls", "mdls", {<<"kMDItemLatitude", lat>>, <<"kMDItemLongitude", lon>>})
TagsGps(lat, lon, lat_ref, lon_ref) ==
    Reading("tags", "tags",
            {p \in {<<"GPS GPSLatitude", lat>>, <<"GPS GPSLongitude", lon>>,
                    <<"GPS GPSLatitudeRef", lat_ref>>, <<"GPS GPSLongitudeRef", lon_ref>>} :
                p[2] # Absent})

GpsItems ==
    {ExifGps(Deg(45), Deg(10), Str(T_N), Str(T_E)),
     ExifGps(Deg(45), Deg(10), Str(T_S), Str(T_W)),
     ExifGps(Deg(45), Deg(10), Str(<<"s">>), Absent),
     ExifGps(Deg(100), Deg(10), Str(T_N), Str(T_E)),
     ExifGps(Deg(45), Deg(190), Str(T_N), Str(T_E)),
     ExifGps(Deg(45), Str(<<"a", "b", "c">>), Absent, Absent),
     ExifGps(Str(<<"4", "-", "5">>), Deg(10), Absent, Absent),
     ExifGps(Deg(45), Absent, Str(T_N), Absent),
     ExifGps(Str(<<"4", "5", " ", "3", "0", "'", " ", "0">>), Str(<<"1", "0", ".", "5">>),
             Str(T_S), Str(T_E)),
     ExifGps(Dms(45, 30, 0), Dms(10, 0, 0), Absent, Str(T_W)),
     ExifGps(Deg(-45), Deg(10), Str(T_S), Absent),
     CompositeGps(Deg(44), Deg(9)),
     CompositeGps(Deg(100), Deg(9)),
     CompositeGps(Deg(200), Deg(9)),
     CompositeGps(Deg(44), Deg(200)),
     CompositeGps(Deg(44), Str(<<"x">>)),
     Reading("exif-XMP", "exif", {<<"XMP:GPSLatitude", Deg(46)>>, <<"XMP:GPSLongitude", Deg(11)>>}),
     Reading("exif-GPS", "exif",
             {<<"GPS:Latitude", Deg(50)>>, <<"GPS:Longitude", Deg(20)>>,
              <<"GPS:LatitudeRef", Str(T_S)>>, <<"GPS:LongitudeRef", Str(T_E)>>}),
     Reading("exif-GPS", "exif", {<<"GPS:Latitude", Deg(50)>>, <<"GPS:Longitude", Deg(200)>>}),
     Reading("position", "exif", {<<"Composite:GPSPosition", Str(<<"4", "7", ",", " ", "1", "2">>)>>}),
     Reading("position", "exif", {<<"Composite:GPSPosition", Str(<<"4", "7">>)>>}),
     Reading("position", "exif", {<<"Composite:GPSPosition", Str(<<"4", "7", ",", "1", "2", ",", "1">>)>>}),
     Reading("position", "exif", {<<"Composite:GPSPosition", Str(<<"9", "5", ",", "1", "2">>)>>}),
     Reading("position", "exif", {<<"Composite:GPSPosition", Str(<<"4", "7", ",", "x">>)>>}),
     MdlsGps(<<"4", "8">>, <<"1", "3">>),
     MdlsGps(<<"-", "4", "8", ".", "5">>, <<"1", "3">>),
     MdlsGps(<<"1", "0", "0">>, <<"1", "3">>),
     MdlsGps(<<"4", "8">>, <<"a", "b", "c">>),
     MdlsGps(<<"4", "8">>, T_paren_null),
     TagsGps(Dms(49, 0, 0), Dms(14, 30, 0), Str(T_S), Str(T_W)),
     TagsGps(Dms(49, 0, 0), Dms(14, 30, 0), Absent, Absent),
     TagsGps(Dms(100, 0, 0), Dms(14, 30, 0), Str(T_N), Str(T_E)),
     TagsGps(Dms(49, 0, 0), Absent, Str(T_N), Absent)}

GpsWorlds == {WorldOf(F_plain, EntriesOf(b)) : b \in Bundles(GpsItems, MaxGpsSources)}

HeadingItems ==
    {Exif("Composite:GPSImgDirection", v) :
        v \in {Deg(0), Deg(360), Deg(370), Deg(-5), None,
               Str(<<"4", "5", ".", "5", " ", "d", "e", "g">>), Str(<<"a", "b", "c">>),
               Str(<<"+", "3", "6", "0", ".">>), Str(<<"3", "6", "0", ".", "5">>)}}
    \cup {Exif("EXIF:GPSDestBearing", v) : v \in {Deg(90), Deg(370), Str(<<"3", "6", "0">>)}}
    \cup {Exif("Track2:CameraAngle", v) : v \in {Num(180 * Unit + 900), Str(<<".", "5">>)}}
    \cup {Tag("GPS GPSImgDirection", v) :
            v \in {List(<<270 * Unit>>), List(<<360 * Unit>>), List(<<400 * Unit>>), List(<< >>)}}
    \cup {Tag("GPS GPSDestBearing", v) : v \in {List(<<10 * Unit>>), List(<<361 * Unit>>)}}

HeadingWorlds == {WorldOf(F_plain, EntriesOf(b)) : b \in Bundles(HeadingItems, MaxHeadingFields)}

SamplePaths ==
    {F_plain, F_dated_heic, F_dated_jpg, F_date_only, F_bad_month, F_feb_30, F_leap_day,
     F_words, F_prefix_only, F_upper_heic}

HeicOutcomes == {"ok", "open_fail", "mkstemp_fail", "save_fail"}

(* photos without metadata: the file may be missing or unreadable, the HEIC
   conversion may stop at each of its steps *)
BuilderWorlds ==
    {w \in {[WorldOf(p, {}) EXCEPT !.exists = ex, !.heic = h,
                                   !.image = [FineImage EXCEPT !.openable = o, !.orientation = r]] :
                p \in SamplePaths, ex \in BOOLEAN, h \in HeicOutcomes, o \in BOOLEAN,
                r \in {1, 6}} :
        /\ ~is_heic(w.path) => w.heic = "ok"
        /\ ~w.exists => ~w.image.openable /\ w.heic \in {"ok", "open_fail"}
        /\ (is_heic(w.path) /\ ~w.exists) => w.heic = "open_fail"
        /\ w.heic = "open_fail" => ~w.image.openable
        /\ ~w.image.openable => w.image.orientation = 1}

UsableCaption == EntriesOf({Exif("XMP:Description", Str(<<"d">>))})
BlankCaption == EntriesOf({Exif("XMP:Description", Str(<<" ">>)), Mdls("kMDItemTitle", T_paren_null)})
RaisingCaption == EntriesOf({Exif("xmp:description", Str(<<"e">>))})
ValidGps == EntriesOf({CompositeGps(Deg(44), Deg(9))})
ValidHeading == EntriesOf({Exif("EXIF:GPSDestBearing", Str(<<"3", "6", "0">>))})

ExiftoolOutcomes ==
    {[k |-> "notfound"], [k |-> "oserror"], [k |-> "error"], [k |-> "nostdout"],
     [k |-> "badjson"], [k |-> "notlist"], [k |-> "notdict"],
     [k |-> "json", v |-> SortEntries({e \in UsableCaption \cup ValidGps : e.src = "exif"})]}
MdlsOutcomes ==
    {Absent, [k |-> "oserror"], [k |-> "undecodable"], [k |-> "error"], [k |-> "out", v |-> << >>],
     [k |-> "out", v |-> <<Entry("kMDItemTitle", <<"\"", "n", "\"">>)>>]}

(* photos whose tools fail in each of the ways the adapters handle *)
AaeOutcomes ==
    {None, [k |-> "unreadable"], [k |-> "aae", adj |-> None, desc |-> Str(<<"s">>)]}

ToolWorlds ==
    {[WorldOf(F_plain, {}) EXCEPT !.exiftool = t, !.mdls = m, !.aae = a] :
        t \in ExiftoolOutcomes, m \in MdlsOutcomes, a \in AaeOutcomes}

(* photos where caption, GPS and heading sources are present together *)
MixedWorlds ==
    {WorldOf(p, c \cup g \cup h) :
        p \in {F_plain, F_dated_heic, F_date_only},
        c \in {{}, UsableCaption, BlankCaption, RaisingCaption},
        g \in {{}, ValidGps},
        h \in {{}, ValidHeading}}

PhotoWorlds ==
    CaptionWorlds \cup GpsWorlds \cup HeadingWorlds \cup BuilderWorlds \cup ToolWorlds
    \cup MixedWorlds

ToolPath == Str(<<"e", "x", "i", "f", "t", "o", "o", "l">>)

(* the photos of a batch *)
BatchPhotos ==
    {WorldOf(F_plain, UsableCaption),
     WorldOf(F_dated_heic, ValidGps),
     [WorldOf(F_upper_heic, {}) EXCEPT !.heic = "save_fail"],
     WorldOf(F_words, RaisingCaption),
     [WorldOf(F_date_only, {}) EXCEPT !.exists = FALSE, !.image.openable = FALSE],
     [WorldOf(F_dated_heic, UsableCaption) EXCEPT !.exiftool = [k |-> "notfound"]]}

RECURSIVE SeqsUpTo(_, _)
SeqsUpTo(S, n) ==
    IF n = 0 THEN {<< >>}
    ELSE LET prev == SeqsUpTo(S, n - 1)
         IN  prev \cup {Append(q, x) : q \in prev, x \in S}

Batches == SeqsUpTo(BatchPhotos, MaxPhotos)
TempNames == 1..MaxPhotos

----------------------------------------------------------------------------
(* One photo: the resolvers and the record builder applied to a world *)

InitPhoto ==
    /\ pc = "start"
    /\ world \in PhotoWorlds
    /\ result = None
    /\ HEIC_SUPPORT \in (IF is_heic(world.path) THEN BOOLEAN ELSE {TRUE})
    /\ EXIFTOOL_PATH \in (IF world \in ToolWorlds THEN {ToolPath, None} ELSE {ToolPath})
    /\ photo_data_list = << >>
    /\ disk = {}
    /\ next_tmp = 0
    /\ unlinked = [n \in TempNames |-> 0]
    /\ cleanup_calls = 0
    /\ cleanup_raised = FALSE

(* what the adapters return for the photo (lines 405-411) *)
Gathered ==
    [et |-> get_metadata_with_exiftool(EXIFTOOL_PATH, world.exiftool),
     mdls_metadata |-> get_macos_metadata(world.mdls),
     aae_data |-> get_aae_data(world.aae),
     tags |-> IF world.exists THEN world.tags ELSE None]

Returned(op, out, exiftool_path) ==
    /\ pc' = "returned"
    /\ result' = [op |-> op, out |-> out]
    /\ EXIFTOOL_PATH' = exiftool_path
    /\ UNCHANGED <<world, HEIC_SUPPORT, photo_data_list, unlinked, cleanup_calls, cleanup_raised>>

(* the three adapters, called on the photo as the builder calls them *)
CallGetMetadataWithExiftool ==
    /\ pc = "start"
    /\ \E r \in {get_metadata_with_exiftool(EXIFTOOL_PATH, world.exiftool)} :
          Returned("get_metadata_with_exiftool", r, r.path)
    /\ UNCHANGED <<disk, next_tmp>>

CallGetMacosMetadata ==
    /\ pc = "start"
    /\ Returned("get_macos_metadata", get_macos_metadata(world.mdls), EXIFTOOL_PATH)
    /\ UNCHANGED <<disk, next_tmp>>

CallGetAaeData ==
    /\ pc = "start"
    /\ Returned("get_aae_data", get_aae_data(world.aae), EXIFTOOL_PATH)
    /\ UNCHANGED <<disk, next_tmp>>

(* the resolvers, called on what the adapters returned *)
CallExtractCaption ==
    /\ pc = "start"
    /\ \E g \in {Gathered} :
          /\ ~adapter_raised(g.et, g.mdls_metadata, g.aae_data)
          /\ Returned("extract_caption",
                      extract_caption(basename(world.path), g.tags, g.et.md, g.mdls_metadata,
                                      g.aae_data),
                      g.et.path)
    /\ UNCHANGED <<disk, next_tmp>>

CallExtractGpsData ==
    /\ pc = "start"
    /\ \E g \in {Gathered} :
          /\ ~adapter_raised(g.et, g.mdls_metadata, g.aae_data)
          /\ Returned("extract_gps_data", extract_gps_data(g.tags, g.et.md, g.mdls_metadata),
                      g.et.path)
    /\ UNCHANGED <<disk, next_tmp>>

CallExtractOrientationData ==
    /\ pc = "start"
    /\ \E g \in {Gathered} :
          /\ ~adapter_raised(g.et, g.mdls_metadata, g.aae_data)
          /\ Returned("extract_orientation_data",
                      extract_orientation_data(g.tags, g.et.md, g.mdls_metadata), g.et.path)
    /\ UNCHANGED <<disk, next_tmp>>

CallExtractMetadataFromPhoto ==
    /\ pc = "start"
    /\ \E r \in {extract_metadata_from_photo(world, HEIC_SUPPORT, EXIFTOOL_PATH, disk, next_tmp)} :
          /\ Returned("extract_metadata_from_photo", r.photo_data, r.EXIFTOOL_PATH)
          /\ disk' = r.disk
          /\ next_tmp' = r.next_tmp

NextPhoto ==
    \/ CallGetMetadataWithExiftool
    \/ CallGetMacosMetadata
    \/ CallGetAaeData
    \/ CallExtractCaption
    \/ CallExtractGpsData
    \/ CallExtractOrientationData
    \/ CallExtractMetadataFromPhoto

SpecPhoto == InitPhoto /\ [][NextPhoto]_vars

----------------------------------------------------------------------------
(* A batch: extract_metadata_from_photos, then cleanup_temp_files *)

Init ==
    /\ pc = "start"
    /\ world \in Batches
    /\ result = None
    /\ HEIC_SUPPORT \in BOOLEAN
    /\ EXIFTOOL_PATH = ToolPath
    /\ photo_data_list = << >>
    /\ disk = {}
    /\ next_tmp = 0
    /\ unlinked = [n \in TempNames |-> 0]
    /\ cleanup_calls = 0
    /\ cleanup_raised = FALSE

ExtractMetadataFromPhotos ==
    /\ pc = "start"
    /\ \E r \in {extract_metadata_from_photos(world, HEIC_SUPPORT, EXIFTOOL_PATH, disk, next_tmp)} :
          /\ photo_data_list' = r.photo_data_list
          /\ EXIFTOOL_PATH' = r.EXIFTOOL_PATH
          /\ disk' = r.disk
          /\ next_tmp' = r.next_tmp
    /\ pc' = "extracted"
    /\ result' = [op |-> "extract_metadata_from_photos"]
    /\ UNCHANGED <<world, HEIC_SUPPORT, unlinked, cleanup_calls, cleanup_raised>>

(* a call of cleanup_temp_files(photo_data_list); result keeps what the call
   found: the disk, the counts and the records before it, and the files
   os.unlink failed on *)
CleanupTempFiles ==
    /\ pc \in {"extracted", "cleaned"}
    /\ cleanup_calls < MaxCleanupCalls
    /\ \E failing \in SUBSET disk :
          \E st \in {cleanup_temp_files(photo_data_list,
                                        [disk |-> disk, unlinked |-> unlinked, raised |-> FALSE],
                                        failing)} :
              /\ disk' = st.disk
              /\ unlinked' = st.unlinked
              /\ cleanup_raised' = st.raised
              /\ result' = [op |-> "cleanup_temp_files", disk_before |-> disk,
                            unlinked_before |-> unlinked, records_before |-> photo_data_list,
                            failing |-> failing]
    /\ cleanup_calls' = cleanup_calls + 1
    /\ pc' = "cleaned"
    /\ UNCHANGED <<world, HEIC_SUPPORT, EXIFTOOL_PATH, photo_data_list, next_tmp>>

Next ==
    \/ ExtractMetadataFromPhotos
    \/ CleanupTempFiles

Spec == Init /\ [][Next]_vars

----------------------------------------------------------------------------
(* Properties of the batch pipeline *)

----------------------------------------------------------------------------
(* A run of PhotoAppendixApp.generate_document (src/app_gui.py): metadata
   extraction, the optional manual caption dialogs, create_document and the
   handler's except / finally clauses *)

(* the photos of a run *)
RunPhotos ==
    {WorldOf(F_plain, UsableCaption),
     WorldOf(F_dated_heic, ValidGps),
     WorldOf(F_upper_heic, RaisingCaption)}

(* generate_document returns at line 170 when no photo is selected *)
RunBatches == SeqsUpTo(RunPhotos, MaxPhotos) \ {<< >>}

(* what simpledialog.askstring gives for one photo: None when the user
   cancels, the text entered, or an exception out of the dialog *)
DialogAnswers ==
    {None, Str(<< >>), Str(<<" ", " ">>), Str(<<" ", "x", " ">>), Raise("TclError")}

AnswerSeqs(n) == {q \in SeqsUpTo(DialogAnswers, MaxPhotos) : Len(q) = n}

(* app_gui.py line 223: photo['caption'] = caption.strip() *)
set_caption(photo, caption) == [photo EXCEPT !.caption = Str(Strip(caption.v))]

(* app_gui.py lines 200-223, from photo i on: the records after the dialogs
   and whether an exception left the loop *)
RECURSIVE ManualCaptionLoop(_, _, _)
ManualCaptionLoop(list, answers, i) ==
    IF i > Len(list) THEN [photo_data |-> list, raised |-> FALSE]
    ELSE CASE answers[i].k = "raise" -> [photo_data |-> list, raised |-> TRUE]
           [] answers[i].k = "none" -> [photo_data |-> list, raised |-> FALSE]
           [] OTHER -> ManualCaptionLoop([list EXCEPT ![i] = set_caption(list[i], answers[i])],
                                         answers, i + 1)

InitRun ==
    /\ pc = "run_start"
    /\ world \in RunBatches
    /\ result \in {[op |-> "generate_document", use_manual_captions |-> m,
                    answers |-> << >>, extracted |-> << >>, success |-> FALSE] : m \in BOOLEAN}
    /\ HEIC_SUPPORT \in BOOLEAN
    /\ EXIFTOOL_PATH = ToolPath
    /\ photo_data_list = << >>
    /\ disk = {}
    /\ next_tmp = 0
    /\ unlinked = [n \in TempNames |-> 0]
    /\ cleanup_calls = 0
    /\ cleanup_raised = FALSE

(* app_gui.py line 191 *)
RunExtractMetadata ==
    /\ pc = "run_start"
    /\ \E r \in {extract_metadata_from_photos(world, HEIC_SUPPORT, EXIFTOOL_PATH, disk, next_tmp)} :
          /\ photo_data_list' = r.photo_data_list
          /\ EXIFTOOL_PATH' = r.EXIFTOOL_PATH
          /\ disk' = r.disk
          /\ next_tmp' = r.next_tmp
          /\ result' = [result EXCEPT !.extracted = r.photo_data_list]
    /\ pc' = "run_extracted"
    /\ UNCHANGED <<world, HEIC_SUPPORT, unlinked, cleanup_calls, cleanup_raised>>

(* app_gui.py lines 195-223 *)
RunManualCaptions ==
    /\ pc = "run_extracted"
    /\ result.use_manual_captions
    /\ \E answers \in AnswerSeqs(Len(photo_data_list)) :
          \E r \in {ManualCaptionLoop(photo_data_list, answers, 1)} :
              /\ photo_data_list' = r.photo_data
              /\ pc' = IF r.raised THEN "run_raised" ELSE "run_captioned"
              /\ result' = [result EXCEPT !.answers = answers]
    /\ UNCHANGED <<world, HEIC_SUPPORT, EXIFTOOL_PATH, disk, next_tmp, unlinked,
                   cleanup_calls, cleanup_raised>>

(* app_gui.py line 229: create_document(photo_data, ...), which ends with the
   finally clause of document_generator.py lines 356-365; success is what it
   returns *)
RunCreateDocument ==
    /\ \/ pc = "run_captioned"
       \/ pc = "run_extracted" /\ ~result.use_manual_captions
    /\ \E success \in BOOLEAN, failing \in SUBSET disk :
          \E st \in {cleanup_temp_files(photo_data_list,
                                        [disk |-> disk, unlinked |-> unlinked, raised |-> FALSE],
                                        failing)} :
              /\ disk' = st.disk
              /\ unlinked' = st.unlinked
              /\ cleanup_raised' = st.raised
              /\ result' = [result EXCEPT !.success = success]
    /\ cleanup_calls' = cleanup_calls + 1
    /\ pc' = "run_created"
    /\ UNCHANGED <<world, HEIC_SUPPORT, EXIFTOOL_PATH, photo_data_list, next_tmp>>

(* app_gui.py lines 237-262: the messages, the except clause and the finally
   clause, none of which touches the photo temp files *)
RunEnd ==
    /\ pc \in {"run_created", "run_raised"}
    /\ pc' = "run_ended"
    /\ UNCHANGED <<world, result, HEIC_SUPPORT, EXIFTOOL_PATH, photo_data_list, disk, next_tmp,
                   unlinked, cleanup_calls, cleanup_raised>>

NextRun ==
    \/ RunExtractMetadata
    \/ RunManualCaptions
    \/ RunCreateDocument
    \/ RunEnd

SpecRun == InitRun /\ [][NextRun]_vars

----------------------------------------------------------------------------
(* The stages of extract_metadata_from_photo, one step each.  pc is the stage
   that ran last; result holds the record under construction, what the adapters
   returned and whether a resolver raised. *)

(* lines 378-379 *)
new_record(w) ==
    [path |-> w.path, filename |-> basename(w.path), caption |-> None, latitude |-> None,
     longitude |-> None, orientation |-> None, temp_file |-> None, width |-> None,
     height |-> None, error |-> None]

StageWorlds == BuilderWorlds \cup ToolWorlds \cup MixedWorlds

InitStages ==
    /\ pc = "Start"
    /\ world \in StageWorlds
    /\ result = [op |-> "stages", photo_data |-> new_record(world), gathered |-> None,
                 raised |-> FALSE]
    /\ HEIC_SUPPORT \in IF is_heic(world.path) THEN BOOLEAN ELSE {TRUE}
    /\ EXIFTOOL_PATH \in IF world \in ToolWorlds THEN {ToolPath, None} ELSE {ToolPath}
    /\ photo_data_list = << >>
    /\ disk = {}
    /\ next_tmp = 0
    /\ unlinked = [n \in TempNames |-> 0]
    /\ cleanup_calls = 0
    /\ cleanup_raised = FALSE

(* lines 382-404: the HEIC conversion and the dimensions *)
StageNormalize ==
    /\ pc = "Start"
    /\ \E conv \in {heic_conversion(world, HEIC_SUPPORT, next_tmp + 1)} :
          /\ \E dims \in {read_dimensions(world, conv)} :
                result' = [result EXCEPT !.photo_data.width = dims.width,
                                         !.photo_data.height = dims.height,
                                         !.photo_data.temp_file = conv.temp_file,
                                         !.photo_data.error = dims.error]
          /\ disk' = IF conv.created THEN disk \cup {next_tmp + 1} ELSE disk
          /\ next_tmp' = IF conv.created THEN next_tmp + 1 ELSE next_tmp
    /\ pc' = "Normalize"
    /\ UNCHANGED <<world, HEIC_SUPPORT, EXIFTOOL_PATH, photo_data_list, unlinked, cleanup_calls,
                   cleanup_raised>>

(* lines 405-412: the three adapters on original_path and the tag reader on
   processing_path *)
StageAdapterGather ==
    /\ pc = "Normalize"
    /\ \E et \in {get_metadata_with_exiftool(EXIFTOOL_PATH, world.exiftool)} :
          /\ result' = [result EXCEPT !.gathered =
                           [et |-> et.md,
                            mdls_metadata |-> get_macos_metadata(world.mdls),
                            aae_data |-> get_aae_data(world.aae),
                            tags |-> IF ~IsNone(result.photo_data.temp_file) \/ world.exists
                                     THEN world.tags ELSE None]]
          /\ EXIFTOOL_PATH' = et.path
    /\ pc' = "AdapterGather"
    /\ UNCHANGED <<world, HEIC_SUPPORT, photo_data_list, disk, next_tmp, unlinked, cleanup_calls,
                   cleanup_raised>>

(* lines 415-418 with the except clause of lines 433-435: the three resolvers;
   an exception out of extract_caption leaves the block *)
resolved_record(photo_data, caption, gps, orientation) ==
    IF caption.k = "raise" THEN [photo_data EXCEPT !.error = Err("Fatal processing error")]
    ELSE [photo_data EXCEPT !.caption = caption, !.latitude = gps[1], !.longitude = gps[2],
                            !.orientation = orientation]

StageResolve ==
    /\ pc = "AdapterGather"
    /\ \E g \in {result.gathered} :
          \E caption \in {extract_caption(basename(world.path), g.tags, g.et, g.mdls_metadata,
                                          g.aae_data)} :
              result' = [result EXCEPT
                            !.photo_data =
                                resolved_record(result.photo_data, caption,
                                                extract_gps_data(g.tags, g.et, g.mdls_metadata),
                                                extract_orientation_data(g.tags, g.et,
                                                                         g.mdls_metadata)),
                            !.raised = caption.k = "raise"]
    /\ pc' = "Resolve"
    /\ UNCHANGED <<world, HEIC_SUPPORT, EXIFTOOL_PATH, photo_data_list, disk, next_tmp, unlinked,
                   cleanup_calls, cleanup_raised>>

(* line 419 changed to make the fallback also after an exception *)
fallback_needed_after_raise(photo_data, raised) == IsNone(photo_data.caption)

(* line 419, reached only when no resolver raised *)
fallback_needed(photo_data, raised) == ~raised /\ IsNone(photo_data.caption)

(* lines 419-432 *)
StageFallbackCaption ==
    /\ pc = "Resolve"
    /\ fallback_needed(result.photo_data, result.raised)
    /\ result' = [result EXCEPT !.photo_data.caption = fallback_caption(basename(world.path))]
    /\ pc' = "FallbackCaption"
    /\ UNCHANGED <<world, HEIC_SUPPORT, EXIFTOOL_PATH, photo_data_list, disk, next_tmp, unlinked,
                   cleanup_calls, cleanup_raised>>

(* lines 436-443: the record is returned *)
StageDone ==
    /\ \/ pc = "FallbackCaption"
       \/ pc = "Resolve" /\ ~fallback_needed(result.photo_data, result.raised)
    /\ pc' = "Done"
    /\ UNCHANGED <<world, result, HEIC_SUPPORT, EXIFTOOL_PATH, photo_data_list, disk, next_tmp,
                   unlinked, cleanup_calls, cleanup_raised>>

NextStages ==
    \/ StageNormalize
    \/ StageAdapterGather
    \/ StageResolve
    \/ StageFallbackCaption
    \/ StageDone

SpecStages == InitStages /\ [][NextStages]_vars

----------------------------------------------------------------------------
(* extract_metadata_from_photos with the external tools as processes of their
   own: subprocess.run (lines 56 and 333) blocks until the tool exits.  pc is
   "loop" at line 449, "exiftool" and "mdls" while the builder waits in the
   respective adapter, "list_returned" after line 453.  The photo in work is
   the one after the records collected so far. *)

Hang == [k |-> "hang"]

(* the photos of a batch whose tools may never exit *)
LivePhotos ==
    {WorldOf(F_plain, UsableCaption),
     WorldOf(F_dated_heic, ValidGps),
     [WorldOf(F_plain, {}) EXCEPT !.exiftool = Hang],
     [WorldOf(F_words, {}) EXCEPT !.mdls = Hang],
     [WorldOf(F_dated_heic, {}) EXCEPT !.exiftool = [k |-> "notfound"]]}

LiveBatches == SeqsUpTo(LivePhotos, MaxPhotos)

current_photo == world[Len(photo_data_list) + 1]

InitLive ==
    /\ pc = "loop"
    /\ world \in LiveBatches
    /\ result = None
    /\ HEIC_SUPPORT \in BOOLEAN
    /\ EXIFTOOL_PATH = ToolPath
    /\ photo_data_list = << >>
    /\ disk = {}
    /\ next_tmp = 0
    /\ unlinked = [n \in TempNames |-> 0]
    /\ cleanup_calls = 0
    /\ cleanup_raised = FALSE

(* lines 449-450 and 375-405: the next photo is taken, converted and measured,
   and get_metadata_with_exiftool is entered *)
LiveStartPhoto ==
    /\ pc = "loop"
    /\ Len(photo_data_list) < Len(world)
    /\ \E conv \in {heic_conversion(current_photo, HEIC_SUPPORT, next_tmp + 1)} :
          /\ result' = [op |-> "extract_metadata_from_photo", conv |-> conv,
                        disk |-> disk, next_tmp |-> next_tmp]
          /\ disk' = IF conv.created THEN disk \cup {next_tmp + 1} ELSE disk
          /\ next_tmp' = IF conv.created THEN next_tmp + 1 ELSE next_tmp
    /\ pc' = "exiftool"
    /\ UNCHANGED <<world, HEIC_SUPPORT, EXIFTOOL_PATH, photo_data_list, unlinked, cleanup_calls,
                   cleanup_raised>>

(* lines 53-59: get_metadata_with_exiftool returns at once without a tool
   path (line 53); otherwise subprocess.run, called without a timeout, returns
   when the tool exits *)
LiveExiftoolReturns ==
    /\ pc = "exiftool"
    /\ IsNone(EXIFTOOL_PATH) \/ current_photo.exiftool # Hang
    /\ pc' = "mdls"
    /\ UNCHANGED <<world, result, HEIC_SUPPORT, EXIFTOOL_PATH, photo_data_list, disk, next_tmp,
                   unlinked, cleanup_calls, cleanup_raised>>

(* lines 330-333 and 407-451: get_macos_metadata returns at once when there is
   no mdls (line 330); otherwise subprocess.run, called without a timeout,
   returns when mdls exits; the rest of the builder follows and the record is
   appended *)
LiveMdlsReturns ==
    /\ pc = "mdls"
    /\ current_photo.mdls # Hang
    /\ \E r \in {gather_metadata(current_photo, result.conv, EXIFTOOL_PATH, result.disk,
                                 result.next_tmp)} :
          /\ photo_data_list' = append_record(photo_data_list, r.photo_data)
          /\ EXIFTOOL_PATH' = r.EXIFTOOL_PATH
    /\ result' = None
    /\ pc' = "loop"
    /\ UNCHANGED <<world, HEIC_SUPPORT, disk, next_tmp, unlinked, cleanup_calls, cleanup_raised>>

(* lines 452-453 *)
LiveReturnList ==
    /\ pc = "loop"
    /\ Len(photo_data_list) = Len(world)
    /\ pc' = "list_returned"
    /\ UNCHANGED <<world, result, HEIC_SUPPORT, EXIFTOOL_PATH, photo_data_list, disk, next_tmp,
                   unlinked, cleanup_calls, cleanup_raised>>

NextLive ==
    \/ LiveStartPhoto
    \/ LiveExiftoolReturns
    \/ LiveMdlsReturns
    \/ LiveReturnList

(* WF_vars(LiveMdlsReturns) written out, with the action's guard for its
   enabling condition (the action always changes pc) *)
LiveMdlsReturnsFair ==
    \/ []<>~(pc = "mdls" /\ current_photo.mdls # Hang)
    \/ []<><<LiveMdlsReturns>>_vars

(* the interpreter runs the one thread of the program whenever it can go on;
   nothing makes a tool exit *)
SpecLive ==
    /\ InitLive /\ [][NextLive]_vars
    /\ WF_vars(LiveStartPhoto) /\ WF_vars(LiveExiftoolReturns) /\ LiveMdlsReturnsFair
    /\ WF_vars(LiveReturnList)

----------------------------------------------------------------------------
(* convert_gps_to_decimal called on its own: world is the pair of arguments *)

(* raw coordinates as the sources hold them: numbers, degree-minute-second
   triples, texts *)
RawCoords ==
    {Deg(0), Deg(44), Deg(-44), Deg(100), Deg(170), Deg(-170), Deg(200),
     Dms(44, 30, 0), Dms(9, 0, 36),
     Str(<<"4", "4">>), Str(<<"-", "9">>), Str(<<"4", "4", " ", "3", "0">>),
     Str(<<"9", " ", "d", "e", "g">>), Str(<<"x">>), Str(<< >>), None}

(* reference values: the four letters, in both cases and with blanks, other
   texts, and none *)
RawRefs ==
    {None, Str(T_N), Str(T_S), Str(T_E), Str(T_W), Str(<<"s">>), Str(<<"w">>), Str(<<"n">>),
     Str(<<" ", "S">>), Str(<<"W", " ">>), Str(<<" ", "e", " ">>), Str(<< >>), Str(<<"X">>)}

InitGps ==
    /\ pc = "start"
    /\ world \in [gps_coords : RawCoords, gps_ref : RawRefs]
    /\ result = None
    /\ HEIC_SUPPORT = TRUE
    /\ EXIFTOOL_PATH = ToolPath
    /\ photo_data_list = << >>
    /\ disk = {}
    /\ next_tmp = 0
    /\ unlinked = [n \in TempNames |-> 0]
    /\ cleanup_calls = 0
    /\ cleanup_raised = FALSE

CallConvertGpsToDecimal ==
    /\ pc = "start"
    /\ Returned("convert_gps_to_decimal",
                convert_gps_to_decimal(world.gps_coords, world.gps_ref), EXIFTOOL_PATH)
    /\ UNCHANGED <<disk, next_tmp>>

NextGps == CallConvertGpsToDecimal

SpecGps == InitGps /\ [][NextGps]_vars

----------------------------------------------------------------------------
(* The life of EXIFTOOL_PATH in one process: the module is imported, which
   runs find_exiftool (line 48), and get_metadata_with_exiftool is then called
   once per photo.  world is the list of what the tool does in each call to
   come, result counts the calls made and the subprocesses started. *)

(* what a lookup command of find_exiftool does: it prints a path that exists
   or not, exits with a non-zero code, cannot be started, or fails otherwise *)
CheckOutcomes ==
    {[k |-> "printed", exists |-> TRUE], [k |-> "printed", exists |-> FALSE],
     [k |-> "nonzero"], [k |-> "notfound"], [k |-> "oserror"]}

(* the lookup commands of lines 32-33: one on POSIX, two on Windows *)
CheckRuns == {<<a>> : a \in CheckOutcomes} \cup {<<a, b>> : a, b \in CheckOutcomes}

(* lines 34-45, from command i on *)
RECURSIVE find_exiftool_from(_, _)
find_exiftool_from(checks, i) ==
    IF i > Len(checks) THEN None
    ELSE IF checks[i].k = "printed" /\ checks[i].exists THEN ToolPath
    ELSE find_exiftool_from(checks, i + 1)

find_exiftool(checks) == find_exiftool_from(checks, 1)

ToolRuns == SeqsUpTo(ExiftoolOutcomes, MaxPhotos)

InitTool ==
    /\ pc = "imported"
    /\ world \in ToolRuns
    /\ result = [op |-> "import", calls |-> 0, invocations |-> 0, invoked |-> FALSE,
                 out |-> exiftool_returned(None, Dict(<< >>))]
    /\ HEIC_SUPPORT = TRUE
    /\ \E checks \in CheckRuns : EXIFTOOL_PATH = find_exiftool(checks)
    /\ photo_data_list = << >>
    /\ disk = {}
    /\ next_tmp = 0
    /\ unlinked = [n \in TempNames |-> 0]
    /\ cleanup_calls = 0
    /\ cleanup_raised = FALSE

(* lines 50-75, called for the next photo; subprocess.run is reached only past
   the test of line 53 *)
ToolCall ==
    /\ pc \in {"imported", "called"}
    /\ result.calls < Len(world)
    /\ \E r \in {get_metadata_with_exiftool(EXIFTOOL_PATH, world[result.calls + 1])} :
          /\ result' = [op |-> "get_metadata_with_exiftool",
                        calls |-> result.calls + 1,
                        invocations |-> result.invocations
                                          + (IF IsNone(EXIFTOOL_PATH) THEN 0 ELSE 1),
                        invoked |-> ~IsNone(EXIFTOOL_PATH),
                        out |-> r]
          /\ EXIFTOOL_PATH' = r.path
    /\ pc' = "called"
    /\ UNCHANGED <<world, HEIC_SUPPORT, photo_data_list, disk, next_tmp, unlinked, cleanup_calls,
                   cleanup_raised>>

NextTool == ToolCall

SpecTool == InitTool /\ [][NextTool]_vars

----------------------------------------------------------------------------
(* create_document(photo_data_list, ...) of document_generator.py, called on
   the records extract_metadata_from_photos returned.  pc is "doc_start" before
   the extraction, "doc_loop" in the loop of line 79, "doc_saved" after line
   341, "doc_failed" in the except clause of line 345, "doc_returned" after
   the finally clause.  result.index counts the records the loop has handled,
   result.image_found tells whether the last one found its image file. *)

(* line 91 *)
image_path(photo_data) ==
    IF Truthy(photo_data.temp_file) THEN photo_data.temp_file ELSE Str(photo_data.path)

(* line 92: os.path.exists(image_path), w being the photo of the record *)
image_exists(photo_data, w, fs) ==
    IF Truthy(photo_data.temp_file) THEN photo_data.temp_file.v \in fs ELSE w.exists

(* the finally clause of lines 356-365 moved into the loop body *)
add_photo_entry_then_cleanup(list, i, ws, st) ==
    [st |-> cleanup_temp_files(list, st, {}),
     image_found |-> image_exists(list[i], ws[i], st.disk)]

(* lines 80-337 for record i: the entry is added to the document from the
   image file, or an error paragraph when the file is missing; the files on
   disk are left alone *)
add_photo_entry(list, i, ws, st) ==
    [st |-> st,
     image_found |-> image_exists(list[i], ws[i], st.disk)]

InitDoc ==
    /\ pc = "doc_start"
    /\ world \in Batches
    /\ result = [op |-> "create_document", index |-> 0, image_found |-> FALSE,
                 success |-> FALSE]
    /\ HEIC_SUPPORT \in BOOLEAN
    /\ EXIFTOOL_PATH = ToolPath
    /\ photo_data_list = << >>
    /\ disk = {}
    /\ next_tmp = 0
    /\ unlinked = [n \in TempNames |-> 0]
    /\ cleanup_calls = 0
    /\ cleanup_raised = FALSE

(* app_gui.py line 191, then create_document up to line 78 *)
DocEnterLoop ==
    /\ pc = "doc_start"
    /\ \E r \in {extract_metadata_from_photos(world, HEIC_SUPPORT, EXIFTOOL_PATH, disk, next_tmp)} :
          /\ photo_data_list' = r.photo_data_list
          /\ EXIFTOOL_PATH' = r.EXIFTOOL_PATH
          /\ disk' = r.disk
          /\ next_tmp' = r.next_tmp
    /\ pc' = "doc_loop"
    /\ UNCHANGED <<world, result, HEIC_SUPPORT, unlinked, cleanup_calls, cleanup_raised>>

(* lines 79-337 for the next record; an exception outside the inner try
   clause of lines 118-157 leaves the loop for the except clause of line 345 *)
DocPhotoEntry ==
    /\ pc = "doc_loop"
    /\ result.index < Len(photo_data_list)
    /\ \E fatal \in BOOLEAN :
          \E r \in {add_photo_entry(photo_data_list, result.index + 1, world,
                                    [disk |-> disk, unlinked |-> unlinked, raised |-> FALSE])} :
              /\ disk' = r.st.disk
              /\ unlinked' = r.st.unlinked
              /\ result' = [result EXCEPT !.index = @ + 1, !.image_found = r.image_found]
              /\ pc' = IF fatal THEN "doc_failed" ELSE "doc_loop"
    /\ UNCHANGED <<world, HEIC_SUPPORT, EXIFTOOL_PATH, photo_data_list, next_tmp, cleanup_calls,
                   cleanup_raised>>

(* lines 339-343: doc.save writes the document or raises *)
DocSave ==
    /\ pc = "doc_loop"
    /\ result.index = Len(photo_data_list)
    /\ \E saved \in BOOLEAN : pc' = IF saved THEN "doc_saved" ELSE "doc_failed"
    /\ UNCHANGED <<world, result, HEIC_SUPPORT, EXIFTOOL_PATH, photo_data_list, disk, next_tmp,
                   unlinked, cleanup_calls, cleanup_raised>>

(* lines 356-365, then the return of line 343 or 354 *)
DocFinally ==
    /\ pc \in {"doc_saved", "doc_failed"}
    /\ \E failing \in SUBSET disk :
          \E st \in {cleanup_temp_files(photo_data_list,
                                        [disk |-> disk, unlinked |-> unlinked, raised |-> FALSE],
                                        failing)} :
              /\ disk' = st.disk
              /\ unlinked' = st.unlinked
              /\ cleanup_raised' = st.raised
    /\ result' = [result EXCEPT !.success = (pc = "doc_saved")]
    /\ cleanup_calls' = cleanup_calls + 1
    /\ pc' = "doc_returned"
    /\ UNCHANGED <<world, HEIC_SUPPORT, EXIFTOOL_PATH, photo_data_list, next_tmp>>

NextDoc ==
    \/ DocEnterLoop
    \/ DocPhotoEntry
    \/ DocSave
    \/ DocFinally

SpecDoc == InitDoc /\ [][NextDoc]_vars

(* C1: once extract_metadata_from_photos has returned, photo_data_list holds
   exactly one record per input path, in the input order: record i carries
   path i unchanged, whether the photo's processing succeeded or failed. *)
C1_OneRecordPerPathInOrder ==
    pc # "start" =>
        /\ Len(photo_data_list) = Len(world)
        /\ \A i \in 1..Len(world) : photo_data_list[i].path = world[i].path

(* C1 happens: two photos with different paths, one processed with an error
   and one without *)
C1_Witness ==
    /\ pc = "extracted"
    /\ Len(world) = 2
    /\ Len(photo_data_list) = 2
    /\ world[1].path # world[2].path
    /\ ~IsNone(photo_data_list[1].error)
    /\ IsNone(photo_data_list[2].error)

(* the temp files the records of the list name *)
RecordTempFiles ==
    {photo_data_list[i].temp_file.v :
        i \in {j \in 1..Len(photo_data_list) : Truthy(photo_data_list[j].temp_file)}}

(* C9: a second or later call of cleanup_temp_files on the same list, made
   when every temp file the records name is already gone, raises nothing and
   leaves the disk, the unlink counts and the records as it found them. *)
C9_CleanupIdempotent ==
    (/\ pc = "cleaned"
     /\ cleanup_calls >= 2
     /\ RecordTempFiles \cap result.disk_before = {}) =>
        /\ ~cleanup_raised
        /\ disk = result.disk_before
        /\ unlinked = result.unlinked_before
        /\ photo_data_list = result.records_before

(* C9 happens: the records name temp files, an earlier call removed them all
   and cleanup_temp_files has been called again *)
C9_Witness ==
    /\ pc = "cleaned"
    /\ cleanup_calls >= 2
    /\ RecordTempFiles # {}
    /\ \A n \in RecordTempFiles : unlinked[n] = 1
    /\ RecordTempFiles \cap result.disk_before = {}

(* C10: when cleanup_temp_files returns, it has raised nothing; every record's
   temp file that was on disk, and whose os.unlink did not fail, is gone and
   was unlinked once by this call, whatever happened to the files of the other
   records; a file already missing is left alone; and over the whole run no
   temp file is unlinked more than once. *)
C10_CleanupRemovesExistingFilesOnce ==
    pc = "cleaned" =>
        /\ ~cleanup_raised
        /\ \A n \in RecordTempFiles :
              /\ (n \in result.disk_before /\ n \notin result.failing) =>
                    (n \notin disk /\ unlinked[n] = result.unlinked_before[n] + 1)
              /\ n \notin result.disk_before => unlinked[n] = result.unlinked_before[n]
        /\ \A n \in TempNames : unlinked[n] <= 1

(* C10 happens: the unlink of an earlier record's file failed and the file of
   a later record was removed by the same call *)
C10_Witness ==
    /\ pc = "cleaned"
    /\ \E i, j \in 1..Len(photo_data_list) :
          /\ i < j
          /\ Truthy(photo_data_list[i].temp_file)
          /\ Truthy(photo_data_list[j].temp_file)
          /\ photo_data_list[i].temp_file.v \in result.failing
          /\ photo_data_list[i].temp_file.v \in disk
          /\ photo_data_list[j].temp_file.v \in result.disk_before
          /\ photo_data_list[j].temp_file.v \notin disk

----------------------------------------------------------------------------
(* Properties of the resolvers and of the record builder *)

CalledOp(op) == pc = "returned" /\ result.op = op

(* the first element of a sequence of values that is not None *)
FirstValue(values) ==
    IF \A i \in 1..Len(values) : IsNone(values[i]) THEN None
    ELSE values[Min({i \in 1..Len(values) : ~IsNone(values[i])})]

(* tier 1 as the claim reads it: the first primary field, in the declared
   order, that the CLI tool's mapping holds with a non-blank text *)
Tier1Value(md) ==
    LET usable == {i \in 1..Len(primary_description_fields) :
                      /\ HasKey(md, primary_description_fields[i])
                      /\ IsStr(Get(md, primary_description_fields[i]))
                      /\ Len(Strip(Get(md, primary_description_fields[i]).v)) > 0}
    IN  IF usable = {} THEN None
        ELSE Str(Strip(Get(md, primary_description_fields[Min(usable)]).v))

(* what each of the five tiers holds for the photo, in tier order *)
TierValues ==
    <<Tier1Value(Gathered.et.md),
      IF Len(Gathered.et.md) > 0 THEN SecondaryLoop(Gathered.et.md, 1) ELSE None,
      IF Truthy(Gathered.mdls_metadata) THEN MdlsLoop(Gathered.mdls_metadata.v, 1) ELSE None,
      IF Truthy(Gathered.tags) THEN TagsCaption(Gathered.tags.v) ELSE None,
      IF Truthy(Gathered.aae_data) THEN AaeCaption(Gathered.aae_data) ELSE None>>

(* C2: whenever some tier holds a usable value, extract_caption returns the
   value of the earliest such tier, in the order primary fields, secondary
   fields, mdls fields, embedded tag, sidecar text. *)
C2_EarliestTierWins ==
    (CalledOp("extract_caption") /\ ~IsNone(FirstValue(TierValues))) =>
        result.out = FirstValue(TierValues)

(* C3: every record extract_metadata_from_photo returns has a caption that is
   not None. *)
C3_CaptionNeverNull ==
    CalledOp("extract_metadata_from_photo") => ~IsNone(result.out.caption)

(* the pair each GPS source yields for the photo on its own, complete or not *)
SourcePairs ==
    {KeySetPair(Gathered.et.md, gps_keys_sets[i]) : i \in 1..Len(gps_keys_sets)}
    \cup (IF Len(Gathered.et.md) > 0 THEN {PositionPair(Gathered.et.md)} ELSE {})
    \cup (IF Truthy(Gathered.mdls_metadata) THEN {MdlsPair(Gathered.mdls_metadata.v)} ELSE {})
    \cup (IF Truthy(Gathered.tags) THEN {TagsPair(Gathered.tags.v)} ELSE {})

(* C4: latitude and longitude are both present or both absent, in what
   extract_gps_data returns and in the record; a returned pair is the pair one
   single source yields, so a source where only one component is valid
   contributes nothing and no pair mixes two sources. *)
C4_LatLonBothOrNeither ==
    /\ CalledOp("extract_gps_data") =>
          /\ IsNone(result.out[1]) <=> IsNone(result.out[2])
          /\ ~IsNone(result.out[1]) => result.out \in SourcePairs
    /\ CalledOp("extract_metadata_from_photo") =>
          (IsNone(result.out.latitude) <=> IsNone(result.out.longitude))

(* C4 happens: one source yields a latitude without a longitude, and the pair
   returned is the complete pair of another source *)
C4_Witness ==
    /\ CalledOp("extract_gps_data")
    /\ \E p \in SourcePairs : ~IsNone(p[1]) /\ IsNone(p[2])
    /\ ~IsNone(result.out[1])
    /\ ~IsNone(result.out[2])

(* C5: whenever extract_gps_data returns a pair, the latitude is within
   [-90, 90] and the longitude within [-180, 180]. *)
C5_GpsPairInRange ==
    (CalledOp("extract_gps_data") /\ ~IsNone(result.out[1]) /\ ~IsNone(result.out[2])) =>
        /\ -90 * Unit <= result.out[1].v /\ result.out[1].v <= 90 * Unit
        /\ -180 * Unit <= result.out[2].v /\ result.out[2].v <= 180 * Unit

(* the number each heading candidate holds, in the declared order: the CLI
   tool's bearing fields, then the embedded-tag reader's two tags; None where
   the candidate is missing, has no leading number, or does not parse *)
FieldNumber(md, field) ==
    IF Len(md) > 0 /\ HasKey(md, field) /\ ~IsNone(Get(md, field))
       /\ ~IsNone(numeric_part(ValueText(Get(md, field))))
       /\ ParseFloat(numeric_part(ValueText(Get(md, field))).v).k = "num"
    THEN ParseFloat(numeric_part(ValueText(Get(md, field))).v)
    ELSE None

TagHeading(tags, tag_name) ==
    IF Truthy(tags) /\ HasKey(tags.v, tag_name) /\ TagNumber(Get(tags.v, tag_name)).k = "num"
    THEN TagNumber(Get(tags.v, tag_name))
    ELSE None

HeadingCandidates ==
    LET g == Gathered
    IN  [i \in 1..Len(orientation_fields) |-> FieldNumber(g.et.md, orientation_fields[i])]
        \o [i \in 1..Len(orientation_tags) |-> TagHeading(g.tags, orientation_tags[i])]

(* the first of the candidates whose number lies in [0, 360], None when
   there is none *)
FirstInRange(candidates) ==
    LET in_range == {i \in 1..Len(candidates) :
                        /\ ~IsNone(candidates[i])
                        /\ 0 <= candidates[i].v
                        /\ candidates[i].v <= 360 * Unit}
    IN  IF in_range = {} THEN None ELSE candidates[Min(in_range)]

(* the candidates that hold a value before the first in-range candidate *)
RejectedFirst(md, candidates) ==
    {i \in 1..Len(orientation_fields) :
        /\ HasKey(md, orientation_fields[i])
        /\ ~IsNone(Get(md, orientation_fields[i]))
        /\ \A j \in 1..i : candidates[j] # FirstInRange(candidates)}

FatalError == Err("Fatal processing error")

(* C6, as stated: the record's heading is absent or lies in [0, 360), a raw
   candidate of exactly 360 being stored as 0. *)
C6_HeadingBelow360 ==
    CalledOp("extract_metadata_from_photo") =>
        \/ IsNone(result.out.orientation)
        \/ (0 <= result.out.orientation.v /\ result.out.orientation.v < 360 * Unit)

(* C6, as the code has it: the record's heading is absent or lies in
   [0, 360], both ends included; when the first in-range candidate is exactly
   360 and processing did not end in the fatal error, the heading stored is
   360, not 0. *)
C6_HeadingWithin0To360 ==
    CalledOp("extract_metadata_from_photo") =>
        /\ \/ IsNone(result.out.orientation)
           \/ (0 <= result.out.orientation.v /\ result.out.orientation.v <= 360 * Unit)
        /\ (/\ result.out.error # FatalError
            /\ FirstInRange(HeadingCandidates) = Num(360 * Unit)) =>
              result.out.orientation = Num(360 * Unit)

(* C6 happens: a record whose first in-range candidate is exactly 360 *)
C6_Witness ==
    /\ CalledOp("extract_metadata_from_photo")
    /\ FirstInRange(HeadingCandidates) = Num(360 * Unit)
    /\ result.out.orientation = Num(360 * Unit)

(* C7: extract_orientation_data returns the number of the first candidate, in
   the declared order, whose leading number lies in [0, 360]; candidates that
   are out of range or do not parse are passed over; with no in-range
   candidate it returns None. *)
C7_FirstInRangeHeadingWins ==
    CalledOp("extract_orientation_data") =>
        result.out = FirstInRange(HeadingCandidates)

(* C7 happens: the first candidate that holds a value is rejected (370, a
   negative number or text without a number) and a later one is returned *)
C7_Witness ==
    /\ CalledOp("extract_orientation_data")
    /\ ~IsNone(result.out)
    /\ RejectedFirst(Gathered.et.md, HeadingCandidates) # {}
    /\ result.out = FirstInRange(HeadingCandidates)

(* whether extract_caption finds no caption for the photo *)
NoCaptionResolved ==
    IsNone(extract_caption(basename(world.path), Gathered.tags, Gathered.et.md,
                           Gathered.mdls_metadata, Gathered.aae_data))

(* C8, as stated: for IMG_20230401_143000.heic with no caption in any source,
   the record's caption is "Photo from April 01, 2023, 14:30". *)
C8_FallbackCaptionLongDate ==
    (/\ CalledOp("extract_metadata_from_photo")
     /\ world.path = F_dated_heic
     /\ NoCaptionResolved) =>
        result.out.caption = Str(T_claimed_caption)

(* the sample file names that carry a valid date and time, with that date and
   time written as year-month-day hour:minute *)
DatedNames ==
    {<<F_dated_heic, <<"2", "0", "2", "3", "-", "0", "4", "-", "0", "1", " ", "1", "4", ":", "3", "0">>>>,
     <<F_dated_jpg, <<"2", "0", "2", "3", "-", "0", "4", "-", "0", "1", " ", "1", "4", ":", "3", "0">>>>,
     <<F_leap_day, <<"2", "0", "2", "4", "-", "0", "2", "-", "2", "9", " ", "2", "3", ":", "5", "9">>>>}

(* whether extract_caption raises for the photo *)
CaptionResolutionRaises ==
    extract_caption(basename(world.path), Gathered.tags, Gathered.et.md,
                    Gathered.mdls_metadata, Gathered.aae_data).k = "raise"

(* C8, as the code has it: when extract_caption returns without a caption,
   IMG_20230401_143000.heic gets "Photo from 2023-04-01 14:30", and every
   file name with a valid date and time gets "Photo from " followed by the
   date and time as YYYY-MM-DD HH:MM; when extract_caption raises, no fallback
   is made and the caption stays None. *)
C8_FallbackCaptionIsoDate ==
    /\ (CalledOp("extract_metadata_from_photo") /\ NoCaptionResolved) =>
          /\ world.path = F_dated_heic => result.out.caption = Str(T_code_caption)
          /\ \A d \in DatedNames :
                world.path = d[1] => result.out.caption = Str(T_photo_from \o d[2])
    /\ (CalledOp("extract_metadata_from_photo") /\ CaptionResolutionRaises) =>
          IsNone(result.out.caption)

(* C8 happens: the record of IMG_20230401_143000.heic, no source holding a
   caption *)
C8_Witness ==
    /\ CalledOp("extract_metadata_from_photo")
    /\ world.path = F_dated_heic
    /\ NoCaptionResolved
    /\ result.out.caption = Str(T_code_caption)

----------------------------------------------------------------------------
(* C11: when a run of generate_document has ended and extract_metadata_from_photos
   had returned records, cleanup_temp_files has been invoked exactly once,
   whether the run succeeded, create_document failed, or an exception was
   raised between the extraction and the call of create_document *)
C11_CleanupOncePerRun ==
    (pc = "run_ended" /\ Len(result.extracted) > 0) => cleanup_calls = 1

----------------------------------------------------------------------------
(* no adapter and no tag reader gets anything out of the photo *)
NoStageReads ==
    /\ Len(Gathered.et.md) = 0
    /\ IsNone(Gathered.mdls_metadata)
    /\ IsNone(Gathered.aae_data)
    /\ ~Truthy(Gathered.tags)

(* the image cannot be opened by the stage that opens it: the HEIC conversion
   when it is attempted, the dimension reader otherwise *)
CannotBeOpened ==
    IF is_heic(world.path) /\ HEIC_SUPPORT THEN world.heic = "open_fail"
    ELSE ~world.image.openable

FailsEntirely == (~world.exists \/ CannotBeOpened) /\ NoStageReads

(* C12: the record of a path that fails entirely (the file does not exist, or
   no stage can open or read it) has its processing error set. *)
C12_FailedPathHasError ==
    (CalledOp("extract_metadata_from_photo") /\ FailsEntirely) =>
        ~IsNone(result.out.error)

----------------------------------------------------------------------------
(* C13: when caption resolution raises, the record's error is set and the
   other stages still run: latitude and longitude are what extract_gps_data
   gives, the heading is what extract_orientation_data gives, and the caption
   is the fallback made from the file name. *)
C13_RaisingStageAloneIsLost ==
    (CalledOp("extract_metadata_from_photo") /\ CaptionResolutionRaises) =>
        /\ ~IsNone(result.out.error)
        /\ <<result.out.latitude, result.out.longitude>> =
              extract_gps_data(Gathered.tags, Gathered.et.md, Gathered.mdls_metadata)
        /\ result.out.orientation =
              extract_orientation_data(Gathered.tags, Gathered.et.md, Gathered.mdls_metadata)
        /\ result.out.caption = fallback_caption(basename(world.path))

----------------------------------------------------------------------------
(* C14, as stated: the stages of the builder run in the order AdapterGather,
   Normalize, Resolve, FallbackCaption (when no caption was resolved), Done,
   none of them skipped. *)
C14_StagesInDeclaredOrder ==
    [][/\ pc = "Start" => pc' = "AdapterGather"
       /\ pc = "AdapterGather" => pc' = "Normalize"
       /\ pc = "Normalize" => pc' = "Resolve"
       /\ pc = "Resolve" =>
             pc' = IF IsNone(result.photo_data.caption) THEN "FallbackCaption" ELSE "Done"
       /\ pc = "FallbackCaption" => pc' = "Done"]_vars

(* C14, as the code has it: the stages run in the order Normalize,
   AdapterGather, Resolve, FallbackCaption, Done.  Normalize and AdapterGather
   always run, whatever the adapters return; FallbackCaption runs exactly when
   the resolvers returned without a caption, and is skipped when caption
   resolution raised. *)
C14_StagesInCodeOrder ==
    [][/\ pc = "Start" => pc' = "Normalize"
       /\ pc = "Normalize" => pc' = "AdapterGather"
       /\ pc = "AdapterGather" => pc' = "Resolve"
       /\ pc = "Resolve" =>
             pc' = IF ~result.raised /\ IsNone(result.photo_data.caption)
                   THEN "FallbackCaption" ELSE "Done"
       /\ pc = "FallbackCaption" => pc' = "Done"]_vars

(* a photo whose adapters returned nothing went through every stage, the
   fallback included *)
C14_Witness ==
    /\ pc = "Done"
    /\ Len(result.gathered.et) = 0
    /\ IsNone(result.gathered.mdls_metadata)
    /\ IsNone(result.gathered.aae_data)
    /\ ~IsNone(result.photo_data.width)
    /\ result.photo_data.caption = fallback_caption(basename(world.path))

----------------------------------------------------------------------------
(* the pair each GPS source yields on its own, in the order the claim gives:
   the CLI tool's four latitude/longitude key sets, its composite position
   string, the mdls fields, the embedded-tag GPS group *)
SourcePairSeq ==
    [i \in 1..Len(gps_keys_sets) |->
        IF Len(Gathered.et.md) > 0 THEN KeySetPair(Gathered.et.md, gps_keys_sets[i]) ELSE NoPair]
    \o <<IF Len(Gathered.et.md) > 0 /\ HasKey(Gathered.et.md, "Composite:GPSPosition")
         THEN PositionPair(Gathered.et.md) ELSE NoPair,
         IF Truthy(Gathered.mdls_metadata) THEN MdlsPair(Gathered.mdls_metadata.v) ELSE NoPair,
         IF Truthy(Gathered.tags) THEN TagsPair(Gathered.tags.v) ELSE NoPair>>

(* a complete pair of valid decimal degrees *)
ValidPair(p) ==
    /\ ~IsNone(p[1]) /\ ~IsNone(p[2])
    /\ -90 * Unit <= p[1].v /\ p[1].v <= 90 * Unit
    /\ -180 * Unit <= p[2].v /\ p[2].v <= 180 * Unit

(* C15: extract_gps_data returns the pair of the first source, in the declared
   order, that yields a complete valid pair, whatever the later sources hold,
   and (None, None) when no source does; both components are those of that
   one source. *)
C15_FirstValidSourceWins ==
    CalledOp("extract_gps_data") =>
        LET pairs == SourcePairSeq
            hits == {i \in 1..Len(pairs) : ValidPair(pairs[i])}
        IN  result.out = IF hits = {} THEN NoPair ELSE pairs[Min(hits)]

----------------------------------------------------------------------------
(* C16: when the conversion of a HEIC source fails, at the opening, at the
   creation of the temporary file or at the saving of the JPEG copy, the
   record has width, height and temp_file unset and the conversion failure in
   error. *)
C16_FailedConversionLeavesNothing ==
    (/\ CalledOp("extract_metadata_from_photo")
     /\ is_heic(world.path) /\ HEIC_SUPPORT
     /\ world.heic \in {"open_fail", "mkstemp_fail", "save_fail"}) =>
        /\ IsNone(result.out.width)
        /\ IsNone(result.out.height)
        /\ IsNone(result.out.temp_file)
        /\ result.out.error = Err("HEIC processing failed")

----------------------------------------------------------------------------
(* C17: whenever a record has width and height set, they are the dimensions
   after the EXIF orientation is applied: the sides of the stored image swapped
   for the orientation values 5, 6, 7 and 8 and as stored for the others, for
   directly opened files and for converted HEIC sources alike. *)
C17_DimensionsArePostOrientation ==
    (/\ CalledOp("extract_metadata_from_photo")
     /\ ~IsNone(result.out.width) /\ ~IsNone(result.out.height)) =>
        IF world.image.orientation \in {5, 6, 7, 8}
        THEN result.out.width.v = world.image.height /\ result.out.height.v = world.image.width
        ELSE result.out.width.v = world.image.width /\ result.out.height.v = world.image.height

----------------------------------------------------------------------------
(* C18: extract_metadata_from_photos returns its list for every finite list of
   paths, also when an invocation of exiftool or mdls never exits by itself. *)
C18_BatchTerminates == <>(pc = "list_returned")

----------------------------------------------------------------------------
(* C19: each adapter returns to its caller whatever fails inside it.
   get_metadata_with_exiftool returns a mapping, the empty one when the tool
   is missing, cannot be started, exits non-zero without output, or prints
   something that is not a JSON list of mappings; get_macos_metadata returns a
   mapping or None, None when mdls is missing, cannot be started, exits
   non-zero or prints undecodable bytes; get_aae_data returns the sidecar's
   text or None, None when the sidecar is missing or cannot be read. *)
C19_AdaptersNeverRaise ==
    /\ CalledOp("get_metadata_with_exiftool") =>
          /\ ~result.out.raised
          /\ world.exiftool.k # "json" => result.out.md = << >>
    /\ CalledOp("get_macos_metadata") =>
          /\ result.out.k \in {"none", "dict"}
          /\ world.mdls.k # "out" => IsNone(result.out)
    /\ CalledOp("get_aae_data") =>
          /\ result.out.k \in {"none", "aae"}
          /\ world.aae.k # "aae" => IsNone(result.out)

(* the CLI tool printed a JSON list whose first element is not a mapping, and
   the adapter returned the empty mapping *)
C19_Witness ==
    /\ CalledOp("get_metadata_with_exiftool")
    /\ world.exiftool.k = "notdict"
    /\ ~IsNone(EXIFTOOL_PATH)
    /\ result.out.md = << >>
    /\ ~result.out.raised

----------------------------------------------------------------------------
(* the value a secondary field holds for the caption: the text under the key
   equal to the field up to letter case, stripped, with the encoding prefix of
   EXIF:UserComment removed; None when the field is absent, not a text, or
   empty *)
SecondaryFieldValue(md, field) ==
    LET fk == found_key(md, field)
        stripped == Strip(Get(md, fk.v).v)
        value == IF KeyLower(field) = "exif:usercomment" /\ Contains(stripped, NUL)
                 THEN UserCommentValue(stripped) ELSE stripped
    IN  IF ~IsNone(fk) /\ IsStr(Get(md, fk.v)) /\ Len(value) > 0 THEN Str(value) ELSE None

(* the value an mdls field holds for the caption *)
MdlsFieldValue(md, field) ==
    IF HasKey(md, field) /\ Get(md, field).v # T_paren_null /\ Len(Strip(Get(md, field).v)) > 0
    THEN Str(Strip(Get(md, field).v)) ELSE None

(* C20: within a caption tier the result is the value of the first field of
   the tier's priority list that holds a non-empty value; a field that is
   present but empty or not a text is passed over.  Stated for the primary
   fields, for the secondary fields when no primary field holds a value, and
   for the mdls fields when no field of the CLI tool does. *)
C20_FirstFieldOfTierWins ==
    CalledOp("extract_caption") =>
        LET md == Gathered.et.md
            t1 == Tier1Value(md)
            t2 == FirstValue([i \in 1..Len(secondary_related_fields) |->
                                 SecondaryFieldValue(md, secondary_related_fields[i])])
            t3 == IF Truthy(Gathered.mdls_metadata)
                  THEN FirstValue([i \in 1..Len(mdls_fields_priority) |->
                                      MdlsFieldValue(Gathered.mdls_metadata.v,
                                                     mdls_fields_priority[i])])
                  ELSE None
        IN  /\ ~IsNone(t1) => result.out = t1
            /\ (IsNone(t1) /\ ~IsNone(t2)) => result.out = t2
            /\ (IsNone(t1) /\ IsNone(t2) /\ ~IsNone(t3)) => result.out = t3

----------------------------------------------------------------------------
(* the reference letter of a reference value, whatever its case and the blanks
   around it *)
RefLetter == IF IsStr(world.gps_ref) THEN Strip(Upper(world.gps_ref.v)) ELSE << >>

(* C21: whenever convert_gps_to_decimal returns a value, a non-negative raw
   value with reference S or W, in any letter case, comes back negated, with
   reference N or E it comes back non-negative and unchanged, and a negative
   raw value comes back as it is whatever the reference. *)
C21_RefAppliedToUnsignedOnly ==
    (CalledOp("convert_gps_to_decimal") /\ ~IsNone(result.out)) =>
        LET raw == GpsDecimal(world.gps_coords).v
        IN  /\ (raw >= 0 /\ RefLetter \in {T_S, T_W}) => (result.out.v = -raw /\ result.out.v <= 0)
            /\ (raw >= 0 /\ RefLetter \in {T_N, T_E}) => (result.out.v = raw /\ result.out.v >= 0)
            /\ raw < 0 => result.out.v = raw

(* a positive raw value with a lower-case south reference came back negative *)
C21_Witness ==
    /\ CalledOp("convert_gps_to_decimal")
    /\ world.gps_coords = Deg(44)
    /\ world.gps_ref = Str(<<"s">>)
    /\ result.out = Deg(-44)

----------------------------------------------------------------------------
(* the dialogs that were shown and confirmed: photo i's dialog is reached when
   no earlier dialog was cancelled or raised *)
Confirmed(i) ==
    /\ i \in 1..Len(result.answers)
    /\ \A j \in 1..i : result.answers[j].k = "str"

(* C22: after manual caption entry, a photo whose dialog was confirmed with a
   blank value still has the caption extraction gave it. *)
C22_BlankEntryKeepsCaption ==
    (pc \in {"run_captioned", "run_raised"}) =>
        \A i \in 1..Len(photo_data_list) :
            (Confirmed(i) /\ Len(Strip(result.answers[i].v)) = 0) =>
                photo_data_list[i].caption = result.extracted[i].caption

----------------------------------------------------------------------------
(* a record without the name mkstemp gave its temp file *)
Unnamed(photo_data) ==
    [photo_data EXCEPT !.temp_file = IF IsNone(@) THEN None ELSE Str(<<"t", "m", "p">>)]

(* the record of photo w processed on its own, with the given tool path *)
Alone(w, exiftool_path) ==
    Unnamed(extract_metadata_from_photo(w, HEIC_SUPPORT, exiftool_path, {}, 0).photo_data)

(* an earlier photo of the batch found the CLI tool missing *)
ToolLostBefore(i) == \E j \in 1..(i - 1) : world[j].exiftool.k = "notfound"

(* C23, as stated: the record of each photo of a batch is the record the photo
   gets when it is processed on its own, whatever precedes it in the batch
   (the temp file's name apart). *)
C23_RecordIndependentOfBatch ==
    pc = "extracted" =>
        \A i \in 1..Len(world) : Unnamed(photo_data_list[i]) = Alone(world[i], ToolPath)

(* C23, as the code has it: the record of a photo depends on the photo and on
   whether an earlier photo of the batch found the CLI tool missing.  With no
   such photo before it, it is the record the photo gets on its own; after
   one, it is the record the photo gets without the CLI tool (the temp file's
   name apart). *)
C23_RecordDependsOnToolFlagOnly ==
    pc = "extracted" =>
        \A i \in 1..Len(world) :
            Unnamed(photo_data_list[i]) =
                Alone(world[i], IF ToolLostBefore(i) THEN None ELSE ToolPath)

(* a photo with a caption in the CLI tool's output comes after a photo that
   found the tool missing, and its record has the fallback caption *)
C23_Witness ==
    /\ pc = "extracted"
    /\ Len(world) = 2
    /\ world[1].exiftool.k = "notfound"
    /\ world[2] = WorldOf(F_plain, UsableCaption)
    /\ photo_data_list[2].caption = fallback_caption(basename(F_plain))
    /\ Alone(world[2], ToolPath).caption = Str(<<"d">>)

----------------------------------------------------------------------------
(* the last segment of a null-separated text that is not blank, stripped; the
   empty text when every segment is blank *)
LastNonEmptySegment(value) ==
    LET parts == Split(value, NUL)
        filled == {i \in 1..Len(parts) : Len(Strip(parts[i])) > 0}
    IN  IF filled = {} THEN << >> ELSE Strip(parts[Max(filled)])

(* the CLI tool's mapping offers the caption search nothing before
   EXIF:UserComment: no key is a primary field in any letter case, and no
   secondary field listed before EXIF:UserComment holds a value *)
UserCommentIsNext(md) ==
    /\ \A i \in 1..Len(primary_description_fields) :
           IsNone(found_key(md, primary_description_fields[i]))
    /\ \A i \in 1..Len(secondary_related_fields) :
           (\E j \in (i + 1)..Len(secondary_related_fields) :
                secondary_related_fields[j] = "EXIF:UserComment")
               => IsNone(SecondaryFieldValue(md, secondary_related_fields[i]))

(* C24: when the caption search reaches an EXIF:UserComment text made of
   null-separated segments of which one is not blank, extract_caption returns
   the last segment that is not blank, however many empty segments follow
   it. *)
C24_UserCommentLastNonEmptySegment ==
    CalledOp("extract_caption") =>
        LET md == Gathered.et.md
            fk == found_key(md, "EXIF:UserComment")
            value == Strip(Get(md, fk.v).v)
        IN  (/\ UserCommentIsNext(md)
             /\ ~IsNone(fk)
             /\ IsStr(Get(md, fk.v))
             /\ Contains(value, NUL)
             /\ Len(LastNonEmptySegment(value)) > 0)
                => result.out = Str(LastNonEmptySegment(value))

----------------------------------------------------------------------------
(* the sample file names that carry a valid date and no time *)
DateOnlyNames == {F_date_only}

(* C25: when extract_caption returns without a caption, the record of a file
   whose name carries a valid date and no time has a caption that starts with
   "Photo from ", and not the cleaned text of the file name. *)
C25_DateWithoutTimeGivesPhotoFrom ==
    (/\ CalledOp("extract_metadata_from_photo")
     /\ NoCaptionResolved
     /\ world.path \in DateOnlyNames) =>
        /\ IsStr(result.out.caption)
        /\ StartsWith(result.out.caption.v, T_photo_from)
        /\ result.out.caption.v # clean_name(splitext_root(basename(world.path)))

----------------------------------------------------------------------------
(* a text that only stands for a missing value: 'null', 'none' or '(null)' in
   any letter case, with or without blanks around it *)
NullPlaceholder(s) == Lower(Strip(s)) \in {T_null, T_none, T_paren_null}

(* C26: a caption extract_caption returns for the adapters' output is a text
   that is neither empty nor blank nor a null placeholder. *)
C26_CaptionNeverBlankOrPlaceholder ==
    (CalledOp("extract_caption") /\ IsStr(result.out)) =>
        /\ Len(Strip(result.out.v)) > 0
        /\ ~NullPlaceholder(result.out.v)

----------------------------------------------------------------------------
(* the value a primary field holds when it is looked up without regard to
   letter case: the text under the first key equal to the field up to letter
   case, stripped; None when there is no such key, or no text, or a blank one *)
PrimaryFieldValue(md, field) ==
    LET fk == found_key(md, field)
    IN  IF ~IsNone(fk) /\ IsStr(Get(md, fk.v)) /\ Len(Strip(Get(md, fk.v).v)) > 0
        THEN Str(Strip(Get(md, fk.v).v)) ELSE None

(* C27: when the CLI tool's mapping has a key equal to a primary field up to
   letter case that holds a non-empty text, extract_caption raises nothing and
   returns the value of the first primary field that holds one. *)
C27_PrimaryLookupIgnoresCase ==
    CalledOp("extract_caption") =>
        LET t1 == FirstValue([i \in 1..Len(primary_description_fields) |->
                                 PrimaryFieldValue(Gathered.et.md, primary_description_fields[i])])
        IN  ~IsNone(t1) => (result.out.k # "raise" /\ result.out = t1)

----------------------------------------------------------------------------
(* C28: EXIFTOOL_PATH is set when the module is imported and is afterwards
   only ever changed to None; from the moment it is None, every call of
   get_metadata_with_exiftool returns the empty mapping without starting a
   subprocess, and the path stays None. *)
C28_ToolFlagOnlyGoesAbsent ==
    [][/\ EXIFTOOL_PATH' = EXIFTOOL_PATH \/ (~IsNone(EXIFTOOL_PATH) /\ IsNone(EXIFTOOL_PATH'))
       /\ IsNone(EXIFTOOL_PATH) =>
             /\ IsNone(EXIFTOOL_PATH')
             /\ result'.out.md = << >>
             /\ ~result'.out.raised
             /\ ~result'.invoked
             /\ result'.invocations = result.invocations]_vars

(* C28 happens: the first call started the tool and could not find it, and the
   second call, for a photo the tool has a mapping for, returned the empty
   mapping without starting it *)
C28_Witness ==
    /\ result.op = "get_metadata_with_exiftool"
    /\ result.calls = 2
    /\ result.invocations = 1
    /\ world[1].k = "notfound"
    /\ world[2].k = "json"
    /\ IsNone(EXIFTOOL_PATH)
    /\ result.out.md = << >>

----------------------------------------------------------------------------
(* C29: within create_document a file leaves the disk only in the finally
   clause, after the loop has ended and the document was saved or the run
   failed; and every record that names a temp file finds it on disk when the
   loop reaches it. *)
C29_NoCleanupBeforeEmbedding ==
    [][/\ ~(disk \subseteq disk') => pc \in {"doc_saved", "doc_failed"}
       /\ (/\ pc = "doc_loop"
           /\ result'.index = result.index + 1
           /\ Truthy(photo_data_list[result'.index].temp_file))
             => result'.image_found]_vars

(* C29 happens: the loop has handled two records that both name a temp file,
   and the second found its file on disk *)
C29_Witness ==
    /\ pc = "doc_loop"
    /\ result.index = 2
    /\ Truthy(photo_data_list[1].temp_file)
    /\ Truthy(photo_data_list[2].temp_file)
    /\ photo_data_list[1].temp_file # photo_data_list[2].temp_file
    /\ result.image_found

----------------------------------------------------------------------------
(* C30: every temp file the batch has put on disk is named by the temp_file
   of a record of the list, and after a call of cleanup_temp_files on the list
   in which no os.unlink failed, no temp file of the batch is left on disk. *)
C30_EveryTempFileIsReferenced ==
    /\ pc = "extracted" => disk \subseteq RecordTempFiles
    /\ (pc = "cleaned" /\ result.failing = {}) => disk = {}

====
